---- MODULE Spec2Model ----
(***************************************************************************)
(* Sutron packet reassembly (sutron/src/message.rs, sutron/src/packet.rs)  *)
(* and the bulk reassembly of a site's SBD messages (atlas/src/site.rs).   *)
(*                                                                         *)
(* Rust's Option<T> is modelled as a sequence of length 0 (None) or 1      *)
(* (Some(x) is <<x>>); Vec<T> is a sequence; HashMap<u8, Vec<Packet>> is a *)
(* function whose domain is the set of keys that have been inserted.       *)
(***************************************************************************)
EXTENDS Integers, Sequences, FiniteSets, TLC

\* ------------------------------------------------------------------ bounds
MaxAdds == 4          \* number of Reassembler::add calls in one behaviour
MaxDataLen == 1       \* longest data of one packet
MaxTotalBytes == 2    \* largest total_bytes a start fragment declares
MaxStartByte == 1     \* largest start_byte a sub-header carries
MaxBuildLen == 3      \* longest packet list passed to Message::new directly
MaxOffsetAdds == 3    \* number of adds to each of two Reassemblers run side by side
MaxBursts == 3        \* number of SBD messages the storage returns for a site
MaxTime == 3          \* latest time of session of an SBD message
MaxShort == 10        \* longest heartbeat message that is cut short
MaxFields == 7        \* number of comma-separated fields of a sub-header
MaxFiller == 2        \* number of filler bytes before a type byte

\* ------------------------------------------------------------ Option<T>
None == <<>>
Some(x) == <<x>>
IsSome(o) == Len(o) = 1
IsNone(o) == Len(o) = 0
Unwrap(o) == o[1]

\* ------------------------------------------------------------ input sets
Ids == {42, 43}
DataBytes == {"a", "b"}

RECURSIVE SeqsUpTo(_, _)
SeqsUpTo(S, n) ==
    IF n = 0 THEN {<<>>}
    ELSE LET shorter == SeqsUpTo(S, n - 1)
         IN  shorter \cup {Append(s, x) : s \in shorter, x \in S}

Datas == SeqsUpTo(DataBytes, MaxDataLen)
TotalBytesOpts == {None} \cup {Some(t) : t \in 0..MaxTotalBytes}

\* ------------------------------------------------------------ Packet
SubHeader(id, start_byte, total_bytes) ==
    [id |-> id, start_byte |-> start_byte, total_bytes |-> total_bytes]

Packet(data, message, sub_header, station_name, type_) ==
    [data |-> data, message |-> message, sub_header |-> sub_header,
     station_name |-> station_name, type_ |-> type_]

\* packet::Type
SelfTimed == <<"SelfTimed">>
EnteringAlarm == <<"EnteringAlarm">>
ExitingAlarm == <<"ExitingAlarm">>
CommandResponse == <<"CommandResponse">>
ForcedTransmission == <<"ForcedTransmission">>
Reserved(n) == <<"Reserved", n>>
UserDefined == <<"UserDefined">>
BinaryData == <<"BinaryData">>

\* Packets as Packet::new builds them (message: None) from a payload with
\* type byte '1' (extended) and '0' (not extended), without station name.
ExtendedPackets(startBytes) ==
    {Packet(d, None, Some(SubHeader(i, s, t)), None, SelfTimed) :
        d \in Datas, i \in Ids, s \in startBytes, t \in TotalBytesOpts}
PlainPackets ==
    {Packet(d, None, None, None, SelfTimed) : d \in Datas}

\* Mutant: a packet with a sub-header is never taken for a start packet.
is_start_packet_OnlyPlain(packet) == IsNone(packet.sub_header)

is_start_packet(packet) ==
    IF IsSome(packet.sub_header)
    THEN IsSome(Unwrap(packet.sub_header).total_bytes)
    ELSE TRUE

datetime(packet) ==
    IF IsSome(packet.message)
    THEN Some(Unwrap(packet.message).time_of_session)
    ELSE None

\* ------------------------------------------------------------ Packet::new
\* A byte is a one-character string, or "x00", "x0A", "xFF" for the bytes 0,
\* 10 (line feed) and 0xff; ByteCode is its value. A payload is a sequence of bytes.
ByteCode ==
    "x00" :> 0 @@ "x0A" :> 10 @@
    "!" :> 33 @@ "+" :> 43 @@ "," :> 44 @@ "-" :> 45 @@ "/" :> 47 @@
    "0" :> 48 @@ "1" :> 49 @@ "2" :> 50 @@ "3" :> 51 @@ "4" :> 52 @@
    "5" :> 53 @@ "6" :> 54 @@ "7" :> 55 @@ "8" :> 56 @@ "9" :> 57 @@
    ":" :> 58 @@ ";" :> 59 @@ "=" :> 61 @@ "A" :> 65 @@ "B" :> 66 @@ "E" :> 69 @@
    "H" :> 72 @@ "N" :> 78 @@ "P" :> 80 @@ "T" :> 84 @@ "_" :> 95 @@
    "a" :> 97 @@ "b" :> 98 @@ "c" :> 99 @@ "d" :> 100 @@ "e" :> 101 @@
    "g" :> 103 @@ "i" :> 105 @@ "k" :> 107 @@ "n" :> 110 @@ "o" :> 111 @@
    "p" :> 112 @@ "q" :> 113 @@ "r" :> 114 @@ "s" :> 115 @@ "t" :> 116 @@
    "w" :> 119 @@ "x" :> 120 @@ "}" :> 125 @@ "~" :> 126 @@
    "xFF" :> 255

LOOK_TO_NEXT_BYTE_FOR_MEANING == "~"
SUB_HEADER_TERMINATOR == ":"

DigitBytes == {"0", "1", "2", "3", "4", "5", "6", "7", "8", "9"}

\* packet::Error, and the errors of the standard library that Packet::new
\* passes on (std::num::ParseIntError, std::string::FromUtf8Error).
LeadingSubHeaderCharacters(s) ==
    [ok |-> FALSE, error |-> "LeadingSubHeaderCharacters", text |-> s]
MissingId == [ok |-> FALSE, error |-> "MissingId"]
MissingPacketTypeByte == [ok |-> FALSE, error |-> "MissingPacketTypeByte"]
MissingStartByte == [ok |-> FALSE, error |-> "MissingStartByte"]
InvalidStationNameField(s) ==
    [ok |-> FALSE, error |-> "InvalidStationNameField", text |-> s]
TrailingSubHeaderCharacters(s) ==
    [ok |-> FALSE, error |-> "TrailingSubHeaderCharacters", text |-> s]
ParseIntError == [ok |-> FALSE, error |-> "ParseIntError"]
FromUtf8Error == [ok |-> FALSE, error |-> "FromUtf8Error"]

Ok(v) == [ok |-> TRUE, value |-> v]

\* impl From<u8> for Type
TypeFrom(n) ==
    CASE n \in {"0", "1"} -> SelfTimed
      [] n \in {"2", "3"} -> EnteringAlarm
      [] n \in {"4", "5"} -> ExitingAlarm
      [] n \in {"6", "7"} -> CommandResponse
      [] n \in {"8", "9"} -> ForcedTransmission
      [] n = "}" -> UserDefined
      [] n = "xFF" -> BinaryData
      [] OTHER -> Reserved(ByteCode[n])

\* Same, for every odd byte.
is_extended_AnyOdd(n) == ByteCode[n] % 2 = 1

is_extended(n) ==
    (ByteCode[n] > ByteCode["0"]) /\ (ByteCode[n] <= ByteCode["9"])
        /\ (ByteCode[n] % 2 = 1)

StartsWith(s, prefix) ==
    Len(s) >= Len(prefix) /\ SubSeq(s, 1, Len(prefix)) = prefix

Drop(s, n) == SubSeq(s, n + 1, Len(s))

parse_sub_header_station_name(s) ==
    IF StartsWith(s, <<"N", "=">>) THEN Some(Drop(s, 2)) ELSE None

\* Iterator::take_while(|&n| n != t) on a by_ref iterator: the bytes before
\* the first t, and what the iterator still holds afterwards (the first t is
\* consumed too).
RECURSIVE TakeWhileNot(_, _)
TakeWhileNot(bytes, t) ==
    IF bytes = <<>> \/ Head(bytes) = t THEN <<>>
    ELSE <<Head(bytes)>> \o TakeWhileNot(Tail(bytes), t)

AfterTakeWhileNot(bytes, t) == Drop(bytes, Len(TakeWhileNot(bytes, t)) + 1)

\* String::from_utf8 succeeds on the model's bytes unless one is 0xff.
IsUtf8(bytes) == \A n \in 1..Len(bytes) : ByteCode[bytes[n]] < 128

\* str::split(','): the fields, at least one.
RECURSIVE Split(_, _)
Split(s, sep) ==
    LET first == TakeWhileNot(s, sep)
    IN  IF Len(first) = Len(s) THEN <<first>>
        ELSE <<first>> \o Split(Drop(s, Len(first) + 1), sep)

\* [&str]::join(",")
RECURSIVE Join(_, _)
Join(fields, sep) ==
    IF fields = <<>> THEN <<>>
    ELSE IF Len(fields) = 1 THEN fields[1]
    ELSE fields[1] \o <<sep>> \o Join(Tail(fields), sep)

RECURSIVE DigitsValue(_)
DigitsValue(s) ==
    IF s = <<>> THEN 0
    ELSE 10 * DigitsValue(SubSeq(s, 1, Len(s) - 1)) + (ByteCode[s[Len(s)]] - ByteCode["0"])

U8Max == 255

\* str::parse::<u8>() and str::parse::<usize>(): an optional '+', then one
\* or more decimal digits, and the value must fit the type. has_max is FALSE
\* for usize: a digit string of the model is far too short to overflow it.
ParseUnsigned(s, has_max, max) ==
    LET digits == IF s # <<>> /\ s[1] = "+" THEN Tail(s) ELSE s
    IN  IF digits = <<>> \/ \E n \in 1..Len(digits) : digits[n] \notin DigitBytes
        THEN ParseIntError
        ELSE IF has_max /\ DigitsValue(digits) > max THEN ParseIntError
        ELSE Ok(DigitsValue(digits))

ParseU8(s) == ParseUnsigned(s, TRUE, U8Max)
ParseUsize(s) == ParseUnsigned(s, FALSE, 0)

\* Same, skipping one filler byte at most.
SkipFiller_One(bytes) ==
    IF bytes # <<>> /\ Head(bytes) = LOOK_TO_NEXT_BYTE_FOR_MEANING
    THEN Tail(bytes)
    ELSE bytes

\* The bytes that follow the leading filler bytes: loop { iter.next() ... }.
RECURSIVE SkipFiller(_)
SkipFiller(bytes) ==
    IF bytes # <<>> /\ Head(bytes) = LOOK_TO_NEXT_BYTE_FOR_MEANING
    THEN SkipFiller(Tail(bytes))
    ELSE bytes

station_name_from_non_extended_sub_header(iter) ==
    LET taken == TakeWhileNot(iter, SUB_HEADER_TERMINATOR)
        sub_header == IF IsUtf8(taken) THEN taken ELSE <<>>
    IN  IF StartsWith(sub_header, <<",">>)
        THEN parse_sub_header_station_name(Drop(sub_header, 1))
        ELSE None

\* Same, with an id or start_byte that does not parse reported as missing.
PacketNewExtended_MissingForUnparsed(type_byte, iter) ==
    LET taken == TakeWhileNot(iter, SUB_HEADER_TERMINATOR)
        rest == AfterTakeWhileNot(iter, SUB_HEADER_TERMINATOR)
        fields == Split(taken, ",")
        nf == Len(fields)
        id == ParseU8(fields[2])
        start_byte == ParseUsize(fields[3])
        name4 == parse_sub_header_station_name(fields[4])
        total == ParseUsize(fields[4])
        name5 == parse_sub_header_station_name(fields[5])
        remaining_characters == Join(Drop(fields, 5), ",")
        total_bytes == IF nf >= 4 /\ IsNone(name4) THEN Some(total.value) ELSE None
        station_name ==
            IF nf >= 5 THEN name5
            ELSE IF nf >= 4 /\ IsSome(name4) THEN name4
            ELSE None
    IN  IF ~IsUtf8(taken) THEN FromUtf8Error
        ELSE IF fields[1] # <<>> THEN LeadingSubHeaderCharacters(fields[1])
        ELSE IF nf < 2 THEN MissingId
        ELSE IF ~id.ok THEN MissingId
        ELSE IF nf < 3 THEN MissingStartByte
        ELSE IF ~start_byte.ok THEN MissingStartByte
        ELSE IF nf >= 4 /\ IsNone(name4) /\ ~total.ok THEN total
        ELSE IF nf >= 5 /\ IsNone(name5) THEN InvalidStationNameField(fields[5])
        ELSE IF Len(remaining_characters) > 0
             THEN TrailingSubHeaderCharacters(<<",">> \o remaining_characters)
        ELSE Ok(Packet(rest, None,
                       Some(SubHeader(id.value, start_byte.value, total_bytes)),
                       station_name, TypeFrom(type_byte)))

\* Packet::new, the extended branch: iter holds the bytes after the type byte.
PacketNewExtended(type_byte, iter) ==
    LET taken == TakeWhileNot(iter, SUB_HEADER_TERMINATOR)
        rest == AfterTakeWhileNot(iter, SUB_HEADER_TERMINATOR)
        fields == Split(taken, ",")
        nf == Len(fields)
        id == ParseU8(fields[2])
        start_byte == ParseUsize(fields[3])
        name4 == parse_sub_header_station_name(fields[4])
        total == ParseUsize(fields[4])
        name5 == parse_sub_header_station_name(fields[5])
        remaining_characters == Join(Drop(fields, 5), ",")
        total_bytes == IF nf >= 4 /\ IsNone(name4) THEN Some(total.value) ELSE None
        station_name ==
            IF nf >= 5 THEN name5
            ELSE IF nf >= 4 /\ IsSome(name4) THEN name4
            ELSE None
    IN  IF ~IsUtf8(taken) THEN FromUtf8Error
        ELSE IF fields[1] # <<>> THEN LeadingSubHeaderCharacters(fields[1])
        ELSE IF nf < 2 THEN MissingId
        ELSE IF ~id.ok THEN id
        ELSE IF nf < 3 THEN MissingStartByte
        ELSE IF ~start_byte.ok THEN start_byte
        ELSE IF nf >= 4 /\ IsNone(name4) /\ ~total.ok THEN total
        ELSE IF nf >= 5 /\ IsNone(name5) THEN InvalidStationNameField(fields[5])
        ELSE IF Len(remaining_characters) > 0
             THEN TrailingSubHeaderCharacters(<<",">> \o remaining_characters)
        ELSE Ok(Packet(rest, None,
                       Some(SubHeader(id.value, start_byte.value, total_bytes)),
                       station_name, TypeFrom(type_byte)))

\* Same, without iter = breadcrumb_iter: what the search for a station name
\* has consumed stays consumed.
PacketNewPlain_NoBreadcrumb(type_byte, iter) ==
    LET name == station_name_from_non_extended_sub_header(iter)
    IN  Ok(Packet(AfterTakeWhileNot(iter, SUB_HEADER_TERMINATOR), None, None,
                  name, TypeFrom(type_byte)))

\* Same, with the iterator set back to the breadcrumb also when a station
\* name was found.
PacketNewPlain_AlwaysBreadcrumb(type_byte, iter) ==
    LET name == station_name_from_non_extended_sub_header(iter)
    IN  Ok(Packet(iter, None, None, name, TypeFrom(type_byte)))

\* Packet::new, the other branch.
PacketNewPlain(type_byte, iter) ==
    LET name == station_name_from_non_extended_sub_header(iter)
    IN  IF IsSome(name)
        THEN Ok(Packet(AfterTakeWhileNot(iter, SUB_HEADER_TERMINATOR), None, None,
                       name, TypeFrom(type_byte)))
        ELSE Ok(Packet(iter, None, None, None, TypeFrom(type_byte)))

PacketNew(bytes) ==
    LET from_type == SkipFiller(bytes)
    IN  IF from_type = <<>> THEN MissingPacketTypeByte
        ELSE IF is_extended(Head(from_type))
             THEN PacketNewExtended(Head(from_type), Tail(from_type))
             ELSE PacketNewPlain(Head(from_type), Tail(from_type))

\* sbd::mo::Message, as far as this code reads it.
SbdMessage(time_of_session, payload) ==
    [time_of_session |-> time_of_session, payload |-> payload]

\* Packet::from_message
PacketFromMessage(message) ==
    LET r == PacketNew(message.payload)
    IN  IF r.ok THEN Ok([r.value EXCEPT !.message = Some(message)]) ELSE r

\* ------------------------------------------------------------ Message::new
RECURSIVE ConcatData(_)
ConcatData(packets) ==
    IF packets = <<>> THEN <<>>
    ELSE Head(packets).data \o ConcatData(Tail(packets))

\* message::Error
NoPackets == [ok |-> FALSE, error |-> "NoPackets"]
DataLengthMismatch(sub_header, actual) ==
    [ok |-> FALSE, error |-> "DataLengthMismatch",
     sub_header |-> sub_header, actual |-> actual]
NoTotalBytes(packet) == [ok |-> FALSE, error |-> "NoTotalBytes", packet |-> packet]

Message(data, dt, packets) ==
    [data |-> data, datetime |-> dt, packets |-> packets]

\* Mutant: a message is accepted as soon as the data is at least as long as
\* the sub-header's total_bytes.
MessageNew_AtLeast(packets) ==
    IF packets = <<>> THEN NoPackets
    ELSE LET sub_header == packets[1].sub_header
             dt == datetime(packets[1])
         IN  IF IsSome(sub_header)
             THEN IF IsSome(Unwrap(sub_header).total_bytes)
                  THEN LET total_bytes == Unwrap(Unwrap(sub_header).total_bytes)
                           data == ConcatData(packets)
                       IN  IF Len(data) >= total_bytes
                           THEN Ok(Message(data, dt, packets))
                           ELSE DataLengthMismatch(total_bytes, Len(data))
                  ELSE NoTotalBytes(packets[1])
             ELSE Ok(Message(packets[1].data, dt, packets))

\* Mutant: the length check looks at the first packet's data only.
MessageNew_FirstPacketLength(packets) ==
    IF packets = <<>> THEN NoPackets
    ELSE LET sub_header == packets[1].sub_header
             dt == datetime(packets[1])
         IN  IF IsSome(sub_header)
             THEN IF IsSome(Unwrap(sub_header).total_bytes)
                  THEN LET total_bytes == Unwrap(Unwrap(sub_header).total_bytes)
                           data == ConcatData(packets)
                       IN  IF Len(packets[1].data) = total_bytes
                           THEN Ok(Message(data, dt, packets))
                           ELSE DataLengthMismatch(total_bytes, Len(data))
                  ELSE NoTotalBytes(packets[1])
             ELSE Ok(Message(packets[1].data, dt, packets))

\* Mutant: a first packet without total_bytes is treated like a packet
\* without sub-header.
MessageNew_ContinuationAnchors(packets) ==
    IF packets = <<>> THEN NoPackets
    ELSE LET sub_header == packets[1].sub_header
             dt == datetime(packets[1])
         IN  IF IsSome(sub_header) /\ IsSome(Unwrap(sub_header).total_bytes)
             THEN LET total_bytes == Unwrap(Unwrap(sub_header).total_bytes)
                      data == ConcatData(packets)
                  IN  IF Len(data) = total_bytes
                      THEN Ok(Message(data, dt, packets))
                      ELSE DataLengthMismatch(total_bytes, Len(data))
             ELSE Ok(Message(packets[1].data, dt, packets))

\* Mutant: a message is complete only if every fragment's start_byte is the
\* length of the data before it.
MessageNew_OffsetChecked(packets) ==
    IF packets = <<>> THEN NoPackets
    ELSE LET sub_header == packets[1].sub_header
             dt == datetime(packets[1])
         IN  IF IsSome(sub_header)
             THEN IF IsSome(Unwrap(sub_header).total_bytes)
                  THEN LET total_bytes == Unwrap(Unwrap(sub_header).total_bytes)
                           data == ConcatData(packets)
                           inOrder ==
                               \A n \in 1..Len(packets) :
                                   Unwrap(packets[n].sub_header).start_byte =
                                       Len(ConcatData(SubSeq(packets, 1, n - 1)))
                       IN  IF Len(data) = total_bytes /\ inOrder
                           THEN Ok(Message(data, dt, packets))
                           ELSE DataLengthMismatch(total_bytes, Len(data))
                  ELSE NoTotalBytes(packets[1])
             ELSE Ok(Message(packets[1].data, dt, packets))

MessageNew(packets) ==
    IF packets = <<>> THEN NoPackets
    ELSE LET sub_header == packets[1].sub_header
             dt == datetime(packets[1])
         IN  IF IsSome(sub_header)
             THEN IF IsSome(Unwrap(sub_header).total_bytes)
                  THEN LET total_bytes == Unwrap(Unwrap(sub_header).total_bytes)
                           data == ConcatData(packets)
                       IN  IF Len(data) = total_bytes
                           THEN Ok(Message(data, dt, packets))
                           ELSE DataLengthMismatch(total_bytes, Len(data))
                  ELSE NoTotalBytes(packets[1])
             ELSE Ok(Message(packets[1].data, dt, packets))

\* ------------------------------------------------------------ Reassembler
\* packet_map, recycle_bin: the fields of Reassembler.
\* ret: the value the last call of add returned.
\* log: one entry per call of add, in call order: the packet passed, the
\*      value returned and the Reassembler's fields when the call returned.
VARIABLES packet_map, recycle_bin, ret, log

reassembler_vars == <<packet_map, recycle_bin, ret, log>>

\* packet_map.entry(id).or_insert_with(Vec::new)
Entry(map, id) == IF id \in DOMAIN map THEN map[id] ELSE <<>>
Insert(map, id, list) ==
    [k \in DOMAIN map \cup {id} |-> IF k = id THEN list ELSE map[k]]

\* The value of Reassembler::add for a packet without sub-header.
AddPlainResult(map, bin, packet) ==
    LET built == MessageNew(<<packet>>)
    IN  [packet_map |-> map, recycle_bin |-> bin,
         ret |-> IF built.ok THEN Some(built.value) ELSE None]

\* Mutant: the entry is left as it is when the message is built, so that its
\* packets are both returned and in flight.
AddBuildResult_KeepEntry(map, bin1, id, entry1) ==
    LET built == MessageNew(entry1)
    IN  [packet_map |-> Insert(map, id, entry1), recycle_bin |-> bin1,
         ret |-> IF built.ok THEN Some(built.value) ELSE None]

\* Mutant: a message is built only from an entry of more than one packet, so
\* that a start fragment that is complete on its own stays in flight.
AddBuildResult_NeverAlone(map, bin1, id, entry1) ==
    LET built == MessageNew(entry1)
    IN  IF built.ok /\ Len(entry1) > 1
        THEN [packet_map |-> Insert(map, id, <<>>), recycle_bin |-> bin1,
              ret |-> Some(built.value)]
        ELSE [packet_map |-> Insert(map, id, entry1), recycle_bin |-> bin1,
              ret |-> None]

\* Mutant: the packets of a message that is built are also put in the
\* recycle bin.
AddBuildResult_RecycleBuilt(map, bin1, id, entry1) ==
    LET built == MessageNew(entry1)
    IN  IF built.ok
        THEN [packet_map |-> Insert(map, id, <<>>), recycle_bin |-> bin1 \o entry1,
              ret |-> Some(built.value)]
        ELSE [packet_map |-> Insert(map, id, entry1), recycle_bin |-> bin1,
              ret |-> None]

\* The value of Reassembler::add once the entry and the recycle bin are
\* as the packet's push leaves them.
AddBuildResult(map, bin1, id, entry1) ==
    LET built == MessageNew(entry1)
    IN  IF built.ok
        THEN [packet_map |-> Insert(map, id, <<>>), recycle_bin |-> bin1,
              ret |-> Some(built.value)]
        ELSE [packet_map |-> Insert(map, id, entry1), recycle_bin |-> bin1,
              ret |-> None]

\* Mutant: a start fragment empties every id's entry into the recycle bin.
AddResult_DrainAll(map, bin, packet) ==
    IF IsSome(packet.sub_header)
    THEN LET id == Unwrap(packet.sub_header).id
             drained == is_start_packet(packet)
             others == (DOMAIN map) \ {id}
             other == IF others = {} THEN <<>> ELSE map[CHOOSE j \in others : TRUE]
             map1 == IF drained THEN [j \in DOMAIN map |-> <<>>] ELSE map
             bin1 == IF drained THEN bin \o Entry(map, id) \o other ELSE bin
         IN  AddBuildResult(map1, bin1, id, Append(Entry(map1, id), packet))
    ELSE AddPlainResult(map, bin, packet)

\* Mutant: a start fragment clears the entry without filling the recycle bin.
AddResult_NoRecycle(map, bin, packet) ==
    IF IsSome(packet.sub_header)
    THEN LET id == Unwrap(packet.sub_header).id
             entry == Entry(map, id)
             drained == is_start_packet(packet)
         IN  AddBuildResult(map, bin, id,
                            Append(IF drained THEN <<>> ELSE entry, packet))
    ELSE AddPlainResult(map, bin, packet)

\* Mutant: a start fragment is pushed after the fragments already in flight.
AddResult_NoDrain(map, bin, packet) ==
    IF IsSome(packet.sub_header)
    THEN LET id == Unwrap(packet.sub_header).id
         IN  AddBuildResult(map, bin, id, Append(Entry(map, id), packet))
    ELSE AddPlainResult(map, bin, packet)

\* Mutant: a packet without sub-header resets the reassembler's map.
AddResult_PlainResets(map, bin, packet) ==
    IF IsSome(packet.sub_header)
    THEN LET id == Unwrap(packet.sub_header).id
             entry == Entry(map, id)
             drained == is_start_packet(packet)
             bin1 == IF drained THEN bin \o entry ELSE bin
         IN  AddBuildResult(map, bin1, id,
                            Append(IF drained THEN <<>> ELSE entry, packet))
    ELSE AddPlainResult(<<>>, bin, packet)

\* Mutant: every fragment overwrites its id's entry instead of joining it.
AddResult_Overwrite(map, bin, packet) ==
    IF IsSome(packet.sub_header)
    THEN LET id == Unwrap(packet.sub_header).id
             entry == Entry(map, id)
             drained == is_start_packet(packet)
             bin1 == IF drained THEN bin \o entry ELSE bin
         IN  AddBuildResult(map, bin1, id, <<packet>>)
    ELSE AddPlainResult(map, bin, packet)

\* Mutant: a start fragment is put before the fragments already in flight,
\* which stay in the list.
AddResult_MergeEarlier(map, bin, packet) ==
    IF IsSome(packet.sub_header)
    THEN LET id == Unwrap(packet.sub_header).id
             entry == Entry(map, id)
             entry1 == IF is_start_packet(packet) THEN <<packet>> \o entry
                       ELSE Append(entry, packet)
         IN  AddBuildResult(map, bin, id, entry1)
    ELSE AddPlainResult(map, bin, packet)

\* Reassembler::add: the new packet_map, recycle_bin and the returned Option.
AddResult(map, bin, packet) ==
    IF IsSome(packet.sub_header)
    THEN LET id == Unwrap(packet.sub_header).id
             entry == Entry(map, id)
             drained == is_start_packet(packet)
             bin1 == IF drained THEN bin \o entry ELSE bin
             entry1 == Append(IF drained THEN <<>> ELSE entry, packet)
         IN  AddBuildResult(map, bin1, id, entry1)
    ELSE AddPlainResult(map, bin, packet)

\* Reassembler::new
ReassemblerNew ==
    /\ packet_map = <<>>
    /\ recycle_bin = <<>>
    /\ ret = None
    /\ log = <<>>

Add(packet) ==
    LET r == AddResult(packet_map, recycle_bin, packet)
    IN  /\ packet_map' = r.packet_map
        /\ recycle_bin' = r.recycle_bin
        /\ ret' = r.ret
        /\ log' = Append(log, [packet |-> packet, ret |-> r.ret,
                               packet_map |-> r.packet_map,
                               recycle_bin |-> r.recycle_bin])

\* ------------------------------------------------------------ Message::new, called directly
\* packets: the list passed to Message::new.
\* built:   None until Message::new has returned, then Some(its Result).
VARIABLES packets, built

build_vars == <<packets, built>>

BuildIdle ==
    /\ packets = <<>>
    /\ built = None

\* ------------------------------------------------------------ a second Reassembler
\* twin: a second Reassembler beside the first: its packet_map, recycle_bin,
\*       the value its last add returned, and the packets passed to it.
VARIABLES twin

twin_vars == <<twin>>

TwinNew ==
    twin = [packet_map |-> <<>>, recycle_bin |-> <<>>, ret |-> None, passed |-> <<>>]

TwinAdd(packet) ==
    LET r == AddResult(twin.packet_map, twin.recycle_bin, packet)
    IN  twin' = [packet_map |-> r.packet_map, recycle_bin |-> r.recycle_bin,
                 ret |-> r.ret, passed |-> Append(twin.passed, packet)]

\* ------------------------------------------------------------ site::reassemble
\* from_storage: the SBD messages as storage.messages_from_imei returned them.
\* sbd_messages: the local of that name in reassemble.
\* messages:     the local of that name in reassemble.
\* site_result:  None until reassemble has returned, then Some(its Result).
\* pc:           where reassemble stands.
VARIABLES from_storage, sbd_messages, messages, site_result, pc

site_vars == <<from_storage, sbd_messages, messages, site_result, pc>>

SiteIdle ==
    /\ from_storage = <<>>
    /\ sbd_messages = <<>>
    /\ messages = <<>>
    /\ site_result = None
    /\ pc = "idle"

\* ------------------------------------------------------------ Packet::new, called directly
\* payload is the byte slice passed to Packet::new and parsed what it returned
\* (None before the call).
VARIABLES payload, parsed

parse_vars == <<payload, parsed>>

ParseIdle ==
    /\ payload = <<>>
    /\ parsed = None

\* ------------------------------------------------------------ raw::Heartbeat::new
\* decoder is one call of Heartbeat::new: its byte slice, its cursor, its
\* locals and what it returned. twin_decoder is a second call, on the same
\* record encoded as the other version. heartbeat is what the normalization
\* layer makes of the record that decoder returned.
VARIABLES decoder, twin_decoder, heartbeat

heartbeat_vars == <<decoder, twin_decoder, heartbeat>>

DecodersIdle ==
    /\ decoder = None
    /\ twin_decoder = None
    /\ heartbeat = None

vars ==
    <<packet_map, recycle_bin, ret, log, packets, built, twin,
      from_storage, sbd_messages, messages, site_result, pc,
      payload, parsed, decoder, twin_decoder, heartbeat>>

\* ------------------------------------------------------------ Spec
\* A Reassembler that is passed up to MaxAdds packets.
Init ==
    /\ ReassemblerNew
    /\ BuildIdle
    /\ TwinNew
    /\ ParseIdle
    /\ DecodersIdle
    /\ SiteIdle

AddExtended ==
    /\ Len(log) < MaxAdds
    /\ \E packet \in ExtendedPackets({0}) : Add(packet)
    /\ UNCHANGED <<parse_vars, heartbeat_vars,
                   build_vars, twin_vars, site_vars>>

AddPlain ==
    /\ Len(log) < MaxAdds
    /\ \E packet \in PlainPackets : Add(packet)
    /\ UNCHANGED <<parse_vars, heartbeat_vars,
                   build_vars, twin_vars, site_vars>>

Next == AddExtended \/ AddPlain

Spec == Init /\ [][Next]_vars

\* ------------------------------------------------------------ SpecBuild
\* A list of packets is passed to Message::new, and then, packet by packet
\* in list order, to a new Reassembler.
PacketLists(n) == SeqsUpTo(ExtendedPackets({0}) \cup PlainPackets, n)

InitBuild ==
    /\ ReassemblerNew
    /\ packets \in PacketLists(MaxBuildLen)
    /\ built = None
    /\ TwinNew
    /\ ParseIdle
    /\ DecodersIdle
    /\ SiteIdle

BuildNew ==
    /\ built = None
    /\ built' = Some(MessageNew(packets))
    /\ UNCHANGED <<parse_vars, heartbeat_vars,
                   packets, reassembler_vars, twin_vars, site_vars>>

FeedNext ==
    /\ IsSome(built)
    /\ Len(log) < Len(packets)
    /\ Add(packets[Len(log) + 1])
    /\ UNCHANGED <<parse_vars, heartbeat_vars,
                   build_vars, twin_vars, site_vars>>

NextBuild == BuildNew \/ FeedNext

SpecBuild == InitBuild /\ [][NextBuild]_vars

\* ------------------------------------------------------------ SpecOffsets
\* Two Reassemblers are passed the same packets, except that the first one's
\* fragments all carry start_byte 0 and the second one's any start_byte. Two
\* sequences that differ only in their start_byte values both differ from the
\* same all-zero sequence only in start_byte, so what holds between the first
\* and any second holds between any two.
StartBytes == 0..MaxStartByte

WithStartByte(packet, s) ==
    [packet EXCEPT !.sub_header = Some([Unwrap(@) EXCEPT !.start_byte = s])]

InitOffsets ==
    /\ ReassemblerNew
    /\ BuildIdle
    /\ TwinNew
    /\ ParseIdle
    /\ DecodersIdle
    /\ SiteIdle

AddBothExtended ==
    /\ Len(log) < MaxOffsetAdds
    /\ \E packet \in ExtendedPackets({0}) : \E s \in StartBytes :
         /\ Add(packet)
         /\ TwinAdd(WithStartByte(packet, s))
    /\ UNCHANGED <<parse_vars, heartbeat_vars, build_vars, site_vars>>

AddBothPlain ==
    /\ Len(log) < MaxOffsetAdds
    /\ \E packet \in PlainPackets :
         /\ Add(packet)
         /\ TwinAdd(packet)
    /\ UNCHANGED <<parse_vars, heartbeat_vars, build_vars, site_vars>>

NextOffsets == AddBothExtended \/ AddBothPlain

SpecOffsets == InitOffsets /\ [][NextOffsets]_vars

\* ------------------------------------------------------------ SpecSite
\* site::reassemble on the SBD messages of one site, in any order the storage
\* may return them.
Times == 1..MaxTime

\* Payloads of the tests of message.rs and packet.rs: "1,42,0,2:a" (a start
\* fragment), "1,42,1:b" (its continuation), "0ab" (a message in one packet)
\* and "1:" (refused by Packet::new).
Payloads ==
    {<<"1", ",", "4", "2", ",", "0", ",", "2", ":", "a">>,
     <<"1", ",", "4", "2", ",", "1", ":", "b">>,
     <<"0", "a", "b">>,
     <<"1", ":">>}

SbdMessages == {SbdMessage(t, b) : t \in Times, b \in Payloads}

\* The place slice::sort_by_key gives the n-th element: after the elements
\* with a smaller key and the earlier elements with the same key (the sort is
\* stable).
SortedPlace(keys, n) ==
    Cardinality({m \in 1..Len(keys) : keys[m] < keys[n]})
        + Cardinality({m \in 1..n : keys[m] = keys[n]})

StableSort(list, keys) ==
    [place \in 1..Len(list) |->
        list[CHOOSE n \in 1..Len(list) : SortedPlace(keys, n) = place]]

\* Mutant: the SBD messages stay in the order the storage returned them.
SortBySessionTime_Unsorted(list) == list

\* sbd_messages.sort_by_key(|m| m.time_of_session())
SortBySessionTime(list) ==
    StableSort(list, [n \in 1..Len(list) |-> list[n].time_of_session])

\* The order of Option<DateTime<Utc>>: None before every Some, as a number.
DatetimeKey(dt) == IF IsSome(dt) THEN Unwrap(dt) ELSE -1

\* messages.sort_by_key(|m| m.datetime)
SortByDatetime(list) ==
    StableSort(list, [n \in 1..Len(list) |-> DatetimeKey(list[n].datetime)])

InitSite ==
    /\ ReassemblerNew
    /\ BuildIdle
    /\ TwinNew
    /\ ParseIdle
    /\ DecodersIdle
    /\ from_storage \in SeqsUpTo(SbdMessages, MaxBursts)
    /\ sbd_messages = from_storage
    /\ messages = <<>>
    /\ site_result = None
    /\ pc = "sort"

SortBursts ==
    /\ pc = "sort"
    /\ sbd_messages' = SortBySessionTime(sbd_messages)
    /\ pc' = "loop"
    /\ UNCHANGED <<parse_vars, heartbeat_vars,
                   from_storage, messages, site_result,
                   reassembler_vars, build_vars, twin_vars>>

\* The SBD message the loop takes next: the packets of those before it were
\* added and recorded in log.
NextBurst == sbd_messages[Len(log) + 1]

FeedBurst ==
    /\ pc = "loop"
    /\ Len(log) < Len(sbd_messages)
    /\ PacketFromMessage(NextBurst).ok
    /\ Add(PacketFromMessage(NextBurst).value)
    /\ messages' = IF IsSome(ret') THEN Append(messages, Unwrap(ret')) ELSE messages
    /\ UNCHANGED <<parse_vars, heartbeat_vars,
                   from_storage, sbd_messages, site_result, pc,
                   build_vars, twin_vars>>

FeedFails ==
    /\ pc = "loop"
    /\ Len(log) < Len(sbd_messages)
    /\ ~PacketFromMessage(NextBurst).ok
    /\ site_result' = Some(PacketFromMessage(NextBurst))
    /\ pc' = "returned"
    /\ UNCHANGED <<parse_vars, heartbeat_vars,
                   from_storage, sbd_messages, messages,
                   reassembler_vars, build_vars, twin_vars>>

SortMessages ==
    /\ pc = "loop"
    /\ Len(log) = Len(sbd_messages)
    /\ messages' = SortByDatetime(messages)
    /\ site_result' = Some(Ok(messages'))
    /\ pc' = "returned"
    /\ UNCHANGED <<parse_vars, heartbeat_vars, from_storage, sbd_messages,
                   reassembler_vars, build_vars, twin_vars>>

NextSite == SortBursts \/ FeedBurst \/ FeedFails \/ SortMessages

SpecSite == InitSite /\ [][NextSite]_vars

\* ------------------------------------------------------------ raw heartbeats: readers
\* A reader is passed the byte slice and the cursor position (the number of
\* bytes already consumed) and returns the value read with the new position,
\* or an error.
Reader(v, cursor) == [ok |-> TRUE, value |-> v, cursor |-> cursor]

\* The ? operator: the error of r, or what follows for the value read and
\* the position after it.
Try(r, Then(_, _)) == IF r.ok THEN Then(r.value, r.cursor) ELSE r

\* std::io::Error, as far as the readers produce it.
UnexpectedEof == [ok |-> FALSE, error |-> "UnexpectedEof"]
InvalidData == [ok |-> FALSE, error |-> "InvalidData"]

\* heartbeat::raw::Error
MagicNumber(magic_number) ==
    [ok |-> FALSE, error |-> "MagicNumber", magic_number |-> magic_number]
RegexMismatch(string) == [ok |-> FALSE, error |-> "RegexMismatch", string |-> string]
Version(version) == [ok |-> FALSE, error |-> "Version", version |-> version]
UnexpectedByte(n) == [ok |-> FALSE, error |-> "UnexpectedByte", byte |-> n]

MAGIC_NUMBER == <<"A", "T", "H", "B">>
COULD_NOT_OPEN == "x"
GOOD == "g"
BAD == "b"

\* Read::read_exact of n bytes
ReadExact(bytes, cursor, n) ==
    IF cursor + n <= Len(bytes)
    THEN Reader(SubSeq(bytes, cursor + 1, cursor + n), cursor + n)
    ELSE UnexpectedEof

\* ReadBytesExt::read_u8
ReadU8(bytes, cursor) ==
    Try(ReadExact(bytes, cursor, 1), LAMBDA v, c : Reader(v[1], c))

\* The fields of a fixed-width record, read one after the other: widths are
\* their sizes in bytes.
RECURSIVE ReadFields(_, _, _)
ReadFields(bytes, cursor, widths) ==
    IF widths = <<>> THEN Reader(<<>>, cursor)
    ELSE Try(ReadExact(bytes, cursor, Head(widths)), LAMBDA field, c :
             Try(ReadFields(bytes, c, Tail(widths)), LAMBDA rest, c2 :
                 Reader(<<field>> \o rest, c2)))

\* Little-endian unsigned value of a field: read_u8, read_u16::<LittleEndian>,
\* and the bit pattern that read_f32::<LittleEndian> turns into a float.
RECURSIVE LittleEndianValue(_)
LittleEndianValue(field) ==
    IF field = <<>> THEN 0
    ELSE ByteCode[Head(field)] + 256 * LittleEndianValue(Tail(field))

\* read_i8
SignedByte(field) ==
    IF ByteCode[field[1]] >= 128 THEN ByteCode[field[1]] - 256 ELSE ByteCode[field[1]]

\* struct K2, from its fields in the order K2::read_from reads them
K2(fields) ==
    [voltage |-> LittleEndianValue(fields[1]),
     current |-> LittleEndianValue(fields[2]),
     temperature |-> SignedByte(fields[3]),
     state_of_charge |-> LittleEndianValue(fields[4]),
     status |-> LittleEndianValue(fields[5]),
     shutdown_codes |-> LittleEndianValue(fields[6]),
     error_codes |-> LittleEndianValue(fields[7]),
     warning_codes |-> LittleEndianValue(fields[8]),
     additional_information |-> LittleEndianValue(fields[9])]

\* K2::read_from
K2ReadFrom(bytes, cursor) ==
    Try(ReadFields(bytes, cursor, <<4, 4, 1, 1, 1, 2, 2, 2, 1>>),
        LAMBDA fields, c : Reader(K2(fields), c))

\* One turn of the loop of Batteries::read_from: the status byte of a slot
\* and, when it is GOOD, the K2 that follows.
BatterySlot(bytes, cursor) ==
    Try(ReadU8(bytes, cursor), LAMBDA byte, c :
        IF byte = GOOD
        THEN Try(K2ReadFrom(bytes, c), LAMBDA k2, c2 : Reader(Some(k2), c2))
        ELSE IF byte = BAD THEN Reader(None, c)
        ELSE UnexpectedByte(ByteCode[byte]))

\* The loop of Batteries::read_from over the four slots: batteries holds the
\* slots read so far.
RECURSIVE BatterySlots(_, _, _)
BatterySlots(bytes, cursor, batteries) ==
    IF Len(batteries) = 4 THEN Reader(Some(batteries), cursor)
    ELSE Try(BatterySlot(bytes, cursor), LAMBDA battery, c :
             BatterySlots(bytes, c, Append(batteries, battery)))

\* Same, without the seek back over the first byte: the slots are read
\* from the second byte on.
BatteriesReadFrom_NoSeekBack(bytes, cursor) ==
    Try(ReadU8(bytes, cursor), LAMBDA first, c :
        IF first = COULD_NOT_OPEN THEN Reader(None, c)
        ELSE BatterySlots(bytes, c, <<>>))

\* Batteries::read_from
BatteriesReadFrom(bytes, cursor) ==
    Try(ReadU8(bytes, cursor), LAMBDA first, c :
        IF first = COULD_NOT_OPEN THEN Reader(None, c)
        ELSE BatterySlots(bytes, c - 1, <<>>))

\* struct version_03::Efoy, from its fields in the order Efoy::read_from
\* reads them
Efoy(fields) ==
    [internal_temperature |-> LittleEndianValue(fields[1]),
     battery_voltage |-> LittleEndianValue(fields[2]),
     output_current |-> LittleEndianValue(fields[3]),
     reservoir_fluid_level |-> LittleEndianValue(fields[4]),
     current_error |-> LittleEndianValue(fields[5]),
     methanol_consumption |-> LittleEndianValue(fields[6]),
     mode |-> LittleEndianValue(fields[7]),
     status |-> LittleEndianValue(fields[8])]

\* version_03::Efoy::read_from
EfoyReadFrom(bytes, cursor) ==
    Try(ReadFields(bytes, cursor, <<4, 4, 4, 4, 1, 4, 1, 1>>),
        LAMBDA fields, c : Reader(Efoy(fields), c))

\* Same, without the read of the active cartridge port.
Efoy04ReadFrom_NoPort(bytes, cursor) ==
    Try(EfoyReadFrom(bytes, cursor), LAMBDA efoy, c :
        Reader([efoy |-> efoy, active_cartridge_port |-> 0], c))

\* The efoy of version 04: the efoy of version 03 and the active cartridge port.
Efoy04ReadFrom(bytes, cursor) ==
    Try(EfoyReadFrom(bytes, cursor), LAMBDA efoy, c :
        Try(ReadU8(bytes, c), LAMBDA active_cartridge_port, c2 :
            Reader([efoy |-> efoy,
                    active_cartridge_port |-> ByteCode[active_cartridge_port]],
                   c2)))

\* One turn of the loop of version_03::Efoys::read_from
Efoy03Slot(bytes, cursor) ==
    Try(ReadU8(bytes, cursor), LAMBDA byte, c :
        IF byte = COULD_NOT_OPEN \/ byte = BAD THEN Reader(None, c)
        ELSE Try(EfoyReadFrom(bytes, c), LAMBDA efoy, c2 : Reader(Some(efoy), c2)))

\* One turn of the loop of version_04::Efoys::read_from
Efoy04Slot(bytes, cursor) ==
    Try(ReadU8(bytes, cursor), LAMBDA byte, c :
        IF byte = COULD_NOT_OPEN \/ byte = BAD THEN Reader(None, c)
        ELSE Try(Efoy04ReadFrom(bytes, c), LAMBDA efoy, c2 : Reader(Some(efoy), c2)))

\* version_03::Efoys::read_from: the loop over the two slots
Efoys03ReadFrom(bytes, cursor) ==
    Try(Efoy03Slot(bytes, cursor), LAMBDA first, c :
        Try(Efoy03Slot(bytes, c), LAMBDA second, c2 :
            Reader(<<first, second>>, c2)))

\* version_04::Efoys::read_from
Efoys04ReadFrom(bytes, cursor) ==
    Try(Efoy04Slot(bytes, cursor), LAMBDA first, c :
        Try(Efoy04Slot(bytes, c), LAMBDA second, c2 :
            Reader(<<first, second>>, c2)))

\* Sensors::read_from
SensorsReadFrom(bytes, cursor) ==
    Try(ReadFields(bytes, cursor, <<4, 4, 4, 4>>), LAMBDA fields, c :
        Reader([barometric_pressure |-> LittleEndianValue(fields[1]),
                power_box_temperature |-> LittleEndianValue(fields[2]),
                external_temperature |-> LittleEndianValue(fields[3]),
                relative_humidity |-> LittleEndianValue(fields[4])], c))

\* Wind::read_from
WindReadFrom(bytes, cursor) ==
    Try(ReadFields(bytes, cursor, <<4, 4>>), LAMBDA fields, c :
        Reader([speed |-> LittleEndianValue(fields[1]),
                direction |-> LittleEndianValue(fields[2])], c))

\* The regular expression of Scanner::read_from,
\*   ^power_on=(.*),start_scan=(.*),stop_scan=(.*),skip_scan=(.*)$
\* is the literal ScannerPrefix, then four groups separated by the literals
\* of ScannerSeparators. A group matches any characters but a line feed and
\* is greedy.
ScannerPrefix == <<"p", "o", "w", "e", "r", "_", "o", "n", "=">>
ScannerSeparators ==
    <<<<",", "s", "t", "a", "r", "t", "_", "s", "c", "a", "n", "=">>,
      <<",", "s", "t", "o", "p", "_", "s", "c", "a", "n", "=">>,
      <<",", "s", "k", "i", "p", "_", "s", "c", "a", "n", "=">>>>

OccursAt(s, literal, i) ==
    /\ i + Len(literal) - 1 <= Len(s)
    /\ SubSeq(s, i, i + Len(literal) - 1) = literal

\* The groups of a match of s against "(.*)" followed, for each separator, by
\* the separator and another "(.*)", to the end of s; None when s does not
\* match. Each group is as long as the rest allows.
RECURSIVE Groups(_, _)
Groups(s, separators) ==
    IF separators = <<>>
    THEN IF \E n \in 1..Len(s) : s[n] = "x0A" THEN None ELSE Some(<<s>>)
    ELSE LET literal == Head(separators)
             after(i) == Drop(s, i + Len(literal) - 1)
             places == {i \in 1..Len(s) :
                           /\ OccursAt(s, literal, i)
                           /\ \A n \in 1..(i - 1) : s[n] # "x0A"
                           /\ IsSome(Groups(after(i), Tail(separators)))}
             last == CHOOSE i \in places : \A j \in places : j <= i
         IN  IF places = {} THEN None
             ELSE Some(<<SubSeq(s, 1, last - 1)>>
                       \o Unwrap(Groups(after(last), Tail(separators))))

\* Regex::captures
Captures(string) ==
    IF StartsWith(string, ScannerPrefix)
    THEN Groups(Drop(string, Len(ScannerPrefix)), ScannerSeparators)
    ELSE None

\* Scanner::read_from: read_to_string takes every byte that is left, and
\* fails when they are not UTF-8.
ScannerReadFrom(bytes, cursor) ==
    LET string == Drop(bytes, cursor)
        captures == Captures(string)
    IN  IF ~IsUtf8(string) THEN InvalidData
        ELSE IF IsSome(captures)
             THEN Reader([power_on |-> Unwrap(captures)[1],
                          start_scan |-> Unwrap(captures)[2],
                          stop_scan |-> Unwrap(captures)[3],
                          skip_scan |-> Unwrap(captures)[4]],
                         Len(bytes))
        ELSE RegexMismatch(string)

\* ------------------------------------------------------------ raw::Heartbeat::new
\* The locals of one call: the slice, the cursor, the step the call is at,
\* what it has read so far and, once it has returned, the result. trail is
\* history: one entry for every read, with the position it started from.
NewDecoder(bytes) ==
    [bytes |-> bytes, cursor |-> 0, step |-> "magic_number",
     version |-> None, batteries |-> None, efoys |-> None, sensors |-> None,
     wind |-> None, position |-> None, result |-> None, trail |-> <<>>]

Traced(d, read, from, r) ==
    [d EXCEPT !.trail = Append(@, [read |-> read, from |-> from, ok |-> r.ok,
                                   to |-> IF r.ok THEN r.cursor ELSE from])]

Return(d, result) == [d EXCEPT !.step = "returned", !.result = Some(result)]

\* Heartbeat::Version03 { .. } and Heartbeat::Version04 { .. }
HeartbeatValue(d, wind, scanner) ==
    [variant |-> IF Unwrap(d.version) = 3 THEN "Version03" ELSE "Version04",
     batteries |-> Unwrap(d.batteries), efoys |-> Unwrap(d.efoys),
     sensors |-> Unwrap(d.sensors), wind |-> wind, scanner |-> scanner]

\* A step that reads r from position from: the error of r returned, or
\* the call moved on by Then to after what was read.
Read(d, read, from, r, Then(_, _)) ==
    LET t == Traced(d, read, from, r)
    IN  IF r.ok THEN Then([t EXCEPT !.cursor = r.cursor], r.value)
        ELSE Return(t, r)

\* Same, comparing only the first three bytes of the magic number.
ReadMagicNumber_ThreeBytes(d) ==
    Read(d, "magic_number", d.cursor, ReadExact(d.bytes, d.cursor, 4),
         LAMBDA t, magic_number :
             IF SubSeq(magic_number, 1, 3) # SubSeq(MAGIC_NUMBER, 1, 3)
             THEN Return(t, MagicNumber(magic_number))
             ELSE [t EXCEPT !.step = "version"])

\* Heartbeat::new, to the comparison of the magic number
ReadMagicNumber(d) ==
    Read(d, "magic_number", d.cursor, ReadExact(d.bytes, d.cursor, 4),
         LAMBDA t, magic_number :
             IF magic_number # MAGIC_NUMBER
             THEN Return(t, MagicNumber(magic_number))
             ELSE [t EXCEPT !.step = "version"])

\* String::from_utf8(version.to_vec())?.parse()?
ParseVersion(version) ==
    IF ~IsUtf8(version) THEN FromUtf8Error ELSE ParseU8(version)

\* Same, with every version that is not 3 decoded as version 04.
ReadVersion_NewerIsLatest(d) ==
    Read(d, "version", d.cursor, ReadExact(d.bytes, d.cursor, 2),
         LAMBDA t, text :
             LET version == ParseVersion(text)
             IN  IF ~version.ok THEN Return(t, version)
                 ELSE Read(t, "length", t.cursor, ReadExact(t.bytes, t.cursor, 3),
                           LAMBDA t2, length :
                               [t2 EXCEPT !.version = Some(version.value),
                                          !.step = "batteries"]))

\* Heartbeat::new, from the version to the match on it
ReadVersion(d) ==
    Read(d, "version", d.cursor, ReadExact(d.bytes, d.cursor, 2),
         LAMBDA t, text :
             LET version == ParseVersion(text)
             IN  IF ~version.ok THEN Return(t, version)
                 ELSE Read(t, "length", t.cursor, ReadExact(t.bytes, t.cursor, 3),
                           LAMBDA t2, length :
                               IF version.value \in {3, 4}
                               THEN [t2 EXCEPT !.version = Some(version.value),
                                               !.step = "batteries"]
                               ELSE Return(t2, Version(version.value))))

\* read_version_03_from and read_version_04_from: Batteries::read_from
ReadBatteries(d) ==
    Read(d, "batteries", d.cursor, BatteriesReadFrom(d.bytes, d.cursor),
         LAMBDA t, batteries :
             [t EXCEPT !.batteries = Some(batteries), !.step = "efoys"])

\* version_03::Efoys::read_from in read_version_03_from, and
\* version_04::Efoys::read_from in read_version_04_from
ReadEfoys(d) ==
    Read(d, "efoys", d.cursor,
         IF Unwrap(d.version) = 3 THEN Efoys03ReadFrom(d.bytes, d.cursor)
                                  ELSE Efoys04ReadFrom(d.bytes, d.cursor),
         LAMBDA t, efoys : [t EXCEPT !.efoys = Some(efoys), !.step = "sensors"])

\* Sensors::read_from
ReadSensors(d) ==
    Read(d, "sensors", d.cursor, SensorsReadFrom(d.bytes, d.cursor),
         LAMBDA t, sensors :
             [t EXCEPT !.sensors = Some(sensors), !.step = "scanner"])

\* let position = cursor.position(); if let Ok(scanner) = Scanner::read_from(..)
\* A failed read_to_string leaves the cursor at the end of the slice.
TryScanner(d) ==
    LET scanner == ScannerReadFrom(d.bytes, d.cursor)
        t == [Traced(d, "scanner", d.cursor, scanner)
                 EXCEPT !.position = Some(d.cursor), !.cursor = Len(d.bytes)]
    IN  IF scanner.ok THEN Return(t, Ok(HeartbeatValue(d, None, scanner.value)))
        ELSE [t EXCEPT !.step = "wind"]

\* Same, without cursor.set_position(position): the wind is read from where
\* the failed attempt left the cursor.
ReadWind_NoRewind(d) ==
    Read(d, "wind", d.cursor, WindReadFrom(d.bytes, d.cursor),
         LAMBDA t, wind : [t EXCEPT !.wind = Some(wind),
                                    !.step = "scanner_after_wind"])

\* The else branch: cursor.set_position(position); Wind::read_from(..)?
ReadWind(d) ==
    Read(d, "wind", Unwrap(d.position),
         WindReadFrom(d.bytes, Unwrap(d.position)),
         LAMBDA t, wind : [t EXCEPT !.wind = Some(wind),
                                    !.step = "scanner_after_wind"])

\* Same, with a scanner log that cannot be read taken as an empty one.
ReadScanner_EmptyOnMismatch(d) ==
    LET scanner == ScannerReadFrom(d.bytes, d.cursor)
        empty == [power_on |-> <<>>, start_scan |-> <<>>, stop_scan |-> <<>>,
                  skip_scan |-> <<>>]
    IN  Read(d, "scanner", d.cursor,
             IF scanner.ok THEN scanner ELSE Reader(empty, Len(d.bytes)),
             LAMBDA t, s : Return(t, Ok(HeartbeatValue(t, t.wind, s))))

\* The else branch: Scanner::read_from(&mut cursor)?
ReadScanner(d) ==
    Read(d, "scanner", d.cursor, ScannerReadFrom(d.bytes, d.cursor),
         LAMBDA t, scanner : Return(t, Ok(HeartbeatValue(t, t.wind, scanner))))

\* The next step of a call that has not returned.
Step(d) ==
    CASE d.step = "magic_number" -> ReadMagicNumber(d)
      [] d.step = "version" -> ReadVersion(d)
      [] d.step = "batteries" -> ReadBatteries(d)
      [] d.step = "efoys" -> ReadEfoys(d)
      [] d.step = "sensors" -> ReadSensors(d)
      [] d.step = "scanner" -> TryScanner(d)
      [] d.step = "wind" -> ReadWind(d)
      [] d.step = "scanner_after_wind" -> ReadScanner(d)

\* ------------------------------------------------------------ heartbeat bytes
\* The bytes a data logger sends, put together the way the examples of
\* Batteries::read_from and Efoys::read_from put them together: a status byte
\* for each slot, followed by the fixed-width record when the byte is GOOD
\* (and also when it is the byte that is none of the three constants).
K2Bytes ==
    <<"a", "b", "c", "d", "0", "1", "2", "3", "xFF", "7", "1", "a", "b", "c",
      "d", "0", "1", "2">>
EfoyBytes ==
    <<"0", "1", "2", "3", "a", "b", "c", "d", "4", "5", "6", "7", "8", "9",
      "a", "b", "1", "c", "d", "a", "b", "2", "3">>
ActiveCartridgePortByte == "1"
SensorsBytes ==
    <<"0", "1", "2", "3", "4", "5", "6", "7", "8", "9", "a", "b", "c", "d",
      "a", "b">>
WindBytes == <<"a", "b", "0", "1", "c", "d", "2", "3">>

\* The status bytes of the model: the three constants and one that is none
\* of them.
StatusBytes == {COULD_NOT_OPEN, GOOD, BAD, "q"}

\* What the logger sends for the batteries: one COULD_NOT_OPEN, or a byte for
\* each of the four slots.
BatteryMarks ==
    {<<COULD_NOT_OPEN>>}
        \cup {<<a, b, BAD, c>> : a \in {GOOD, BAD}, b \in StatusBytes, c \in {GOOD, BAD}}
        \cup {<<"q", BAD, BAD, BAD>>, <<GOOD, GOOD, GOOD, GOOD>>, <<BAD, BAD, GOOD, "q">>}
EfoyMarks == {<<a, b>> : a \in StatusBytes, b \in StatusBytes}

ScannerTexts ==
    {<<"p", "o", "w", "e", "r", "_", "o", "n", "=", "a", ",", "s", "t", "a",
       "r", "t", "_", "s", "c", "a", "n", "=", "b", ",", "s", "t", "o", "p",
       "_", "s", "c", "a", "n", "=", "c", ",", "s", "k", "i", "p", "_", "s",
       "c", "a", "n", "=", "d">>,
     <<"p", "o", "w", "e", "r", "_", "o", "n", "=", ",", "s", "t", "a", "r",
       "t", "_", "s", "c", "a", "n", "=", ",", "s", "t", "o", "p", "_", "s",
       "c", "a", "n", "=", ",", "s", "k", "i", "p", "_", "s", "c", "a", "n",
       "=">>,
     <<"p", "o", "w", "e", "r", "_", "o", "n", "=", "a", ",", "s", "t", "a",
       "r", "t", "_", "s", "c", "a", "n", "=", "b">>,
     <<"a", "b", "c">>,
     <<>>,
     <<"p", "o", "w", "e", "r", "_", "o", "n", "=", "a", ",", "s", "t", "a",
       "r", "t", "_", "s", "c", "a", "n", "=", "b", ",", "s", "t", "o", "p",
       "_", "s", "c", "a", "n", "=", "c", ",", "s", "k", "i", "p", "_", "s",
       "c", "a", "n", "=", "d", "x0A">>,
     <<"p", "o", "w", "e", "r", "_", "o", "n", "=", "xFF", ",", "s", "t",
       "a", "r", "t", "_", "s", "c", "a", "n", "=", "b", ",", "s", "t", "o",
       "p", "_", "s", "c", "a", "n", "=", "c", ",", "s", "k", "i", "p", "_",
       "s", "c", "a", "n", "=", "d">>}
Tails == ScannerTexts \cup {WindBytes \o text : text \in ScannerTexts}

RECURSIVE EncodeSlots(_, _)
EncodeSlots(marks, body) ==
    IF marks = <<>> THEN <<>>
    ELSE <<Head(marks)>> \o (IF Head(marks) \in {GOOD, "q"} THEN body ELSE <<>>)
             \o EncodeSlots(Tail(marks), body)

\* The K2 that the battery of a slot sends: each slot has a voltage of its own.
K2BytesOf(slot) == [K2Bytes EXCEPT ![1] = <<"1", "2", "3", "4">>[slot]]

RECURSIVE EncodeK2Slots(_, _)
EncodeK2Slots(marks, slot) ==
    IF marks = <<>> THEN <<>>
    ELSE <<Head(marks)>> \o (IF Head(marks) \in {GOOD, "q"} THEN K2BytesOf(slot) ELSE <<>>)
             \o EncodeK2Slots(Tail(marks), slot + 1)

EncodeBatteries(marks) ==
    IF marks = <<COULD_NOT_OPEN>> THEN marks ELSE EncodeK2Slots(marks, 1)

EncodeEfoys(marks, version) ==
    EncodeSlots(marks, IF version = <<"0", "4">>
                       THEN Append(EfoyBytes, ActiveCartridgePortByte)
                       ELSE EfoyBytes)

\* A heartbeat message: the header (magic number, version, length) and the
\* body of a record, which is its battery marks, efoy marks and tail.
Encode(magic_number, version, record) ==
    magic_number \o version \o <<"0", "0", "0">>
        \o EncodeBatteries(record.batteries) \o EncodeEfoys(record.efoys, version)
        \o SensorsBytes \o record.tail

Records ==
    [batteries : BatteryMarks, efoys : EfoyMarks, tail : Tails]

SupportedVersions == {<<"0", "3">>, <<"0", "4">>}
VersionTexts ==
    SupportedVersions
        \cup {<<"0", "1">>, <<"0", "2">>, <<"0", "5">>, <<"+", "5">>, <<"+", "3">>, <<"0", "a">>, <<"xFF", "0">>}
MagicNumbers == {MAGIC_NUMBER, <<"P", "E", "T", "E">>, <<"A", "T", "H", "x">>}

OneRecord ==
    [batteries |-> <<BAD, BAD, BAD, BAD>>, efoys |-> <<BAD, BAD>>,
     tail |-> <<"p", "o", "w", "e", "r", "_", "o", "n", "=", "a", ",", "s",
               "t", "a", "r", "t", "_", "s", "c", "a", "n", "=", "b", ",",
               "s", "t", "o", "p", "_", "s", "c", "a", "n", "=", "c", ",",
               "s", "k", "i", "p", "_", "s", "c", "a", "n", "=", "d">>]

\* Messages of every header, whole and cut short.
HeaderMessages ==
    {Encode(m, v, OneRecord) : m \in MagicNumbers, v \in VersionTexts}
CutShort(bytes, n) == SubSeq(bytes, 1, IF n < Len(bytes) THEN n ELSE Len(bytes))
ShortMessages(n) == {CutShort(bytes, k) : bytes \in HeaderMessages, k \in 0..n}

\* Messages of the two supported versions, of every record.
RecordMessages == {Encode(MAGIC_NUMBER, v, r) : v \in SupportedVersions, r \in Records}

\* ------------------------------------------------------------ normalization
\* impl From<K2> for heartbeat::Battery: the signed byte and the percentage
\* become floats of the same value.
BatteryFromK2(battery) ==
    [current |-> battery.current,
     temperature |-> battery.temperature,
     state_of_charge |-> battery.state_of_charge,
     voltage |-> battery.voltage]

\* impl From<Batteries> for Vec<heartbeat::Battery>: filter_map over the
\* slots of a bank, the empty vector for no bank.
BatteriesIntoVec(batteries) ==
    IF IsNone(batteries) THEN <<>>
    ELSE LET present == SelectSeq(Unwrap(batteries), IsSome)
         IN  [n \in 1..Len(present) |-> BatteryFromK2(Unwrap(present[n]))]

\* impl From<Wind> for heartbeat::Wind
WindInto(wind) == [speed |-> wind.speed, direction |-> wind.direction]

\* impl From<Heartbeat> for ::Heartbeat, the same for both variants
HeartbeatFrom(raw) ==
    [datetime |-> None,
     batteries |-> BatteriesIntoVec(raw.batteries),
     wind |-> IF IsSome(raw.wind) THEN Some(WindInto(Unwrap(raw.wind))) ELSE None,
     raw |-> raw]

\* impl From<u8> for K2BatteryStatus
K2BatteryStatusFrom(n) ==
    IF n = 1 THEN "Discharge" ELSE IF n = 2 THEN "Charge" ELSE "Idle"

\* n & bit == bit, for a bit that is a power of two
HasBit(n, bit) == (n \div bit) % 2 = 1

\* K2ErrorCodes::flags
K2ErrorCodesFlags(n) ==
    (IF HasBit(n, 1) THEN <<"CellOvervoltage">> ELSE <<>>)
        \o (IF HasBit(n, 2) THEN <<"CellUndervoltage">> ELSE <<>>)
        \o (IF HasBit(n, 4) THEN <<"Overtemperature">> ELSE <<>>)
        \o (IF HasBit(n, 8) THEN <<"Undertemperature">> ELSE <<>>)
        \o (IF HasBit(n, 16) THEN <<"OvercurrentDischarge">> ELSE <<>>)
        \o (IF HasBit(n, 32) THEN <<"OvercurrentCharge">> ELSE <<>>)
        \o (IF HasBit(n, 256) THEN <<"SecuritySwitch">> ELSE <<>>)
        \o (IF HasBit(n, 512) THEN <<"CellMonitorCommError">> ELSE <<>>)

offset_k2_temperature(n) == n + 40

\* Battery::new
BatteryNew(raw) ==
    [current |-> raw.current,
     state_of_charge |-> raw.state_of_charge,
     status |-> K2BatteryStatusFrom(raw.status),
     temperature |-> offset_k2_temperature(raw.temperature),
     voltage |-> raw.voltage,
     error_codes |-> K2ErrorCodesFlags(raw.error_codes)]

\* The batteries of Heartbeat::new: an entry for every slot of a bank, None
\* for a slot that did not respond, and the empty vector for no bank.
HeartbeatNewBatteries(batteries) ==
    IF IsNone(batteries) THEN <<>>
    ELSE LET array == Unwrap(batteries)
         IN  [n \in 1..Len(array) |->
                 IF IsSome(array[n]) THEN Some(BatteryNew(Unwrap(array[n]))) ELSE None]

\* The normalization of the record that decoder returned, by both layers:
\* into is the conversion of raw, batteries the list of Heartbeat::new.
Normalize ==
    /\ IsSome(decoder)
    /\ Unwrap(decoder).step = "returned"
    /\ Unwrap(Unwrap(decoder).result).ok
    /\ heartbeat = None
    /\ LET raw == Unwrap(Unwrap(decoder).result).value
       IN  heartbeat' = Some([into |-> HeartbeatFrom(raw),
                              batteries |-> HeartbeatNewBatteries(raw.batteries)])
    /\ UNCHANGED <<reassembler_vars, build_vars, twin_vars, site_vars, parse_vars,
                   decoder, twin_decoder>>

\* ------------------------------------------------------------ SpecDecode
\* One call of Heartbeat::new, step by step, on a message of the model.
InitDecode ==
    /\ ReassemblerNew
    /\ BuildIdle
    /\ TwinNew
    /\ SiteIdle
    /\ ParseIdle
    /\ \E bytes \in RecordMessages \cup HeaderMessages \cup ShortMessages(MaxShort) :
           decoder = Some(NewDecoder(bytes))
    /\ twin_decoder = None
    /\ heartbeat = None

AtStep(step) == IsSome(decoder) /\ Unwrap(decoder).step = step

DecoderOnly ==
    UNCHANGED <<reassembler_vars, build_vars, twin_vars, site_vars, parse_vars,
                twin_decoder, heartbeat>>

DoReadMagicNumber ==
    /\ AtStep("magic_number")
    /\ decoder' = Some(ReadMagicNumber(Unwrap(decoder)))
    /\ DecoderOnly

DoReadVersion ==
    /\ AtStep("version")
    /\ decoder' = Some(ReadVersion(Unwrap(decoder)))
    /\ DecoderOnly

DoReadBatteries ==
    /\ AtStep("batteries")
    /\ decoder' = Some(ReadBatteries(Unwrap(decoder)))
    /\ DecoderOnly

DoReadEfoys ==
    /\ AtStep("efoys")
    /\ decoder' = Some(ReadEfoys(Unwrap(decoder)))
    /\ DecoderOnly

DoReadSensors ==
    /\ AtStep("sensors")
    /\ decoder' = Some(ReadSensors(Unwrap(decoder)))
    /\ DecoderOnly

DoTryScanner ==
    /\ AtStep("scanner")
    /\ decoder' = Some(TryScanner(Unwrap(decoder)))
    /\ DecoderOnly

DoReadWind ==
    /\ AtStep("wind")
    /\ decoder' = Some(ReadWind(Unwrap(decoder)))
    /\ DecoderOnly

DoReadScanner ==
    /\ AtStep("scanner_after_wind")
    /\ decoder' = Some(ReadScanner(Unwrap(decoder)))
    /\ DecoderOnly

NextDecode ==
    \/ DoReadMagicNumber
    \/ DoReadVersion
    \/ DoReadBatteries
    \/ DoReadEfoys
    \/ DoReadSensors
    \/ DoTryScanner
    \/ DoReadWind
    \/ DoReadScanner
    \/ Normalize

SpecDecode == InitDecode /\ [][NextDecode]_vars

\* ------------------------------------------------------------ SpecVersions
\* Two calls of Heartbeat::new side by side: decoder is passed a record sent
\* as version 03 and twin_decoder the same record sent as version 04.
InitVersions ==
    /\ ReassemblerNew
    /\ BuildIdle
    /\ TwinNew
    /\ SiteIdle
    /\ ParseIdle
    /\ \E record \in Records :
           /\ decoder = Some(NewDecoder(Encode(MAGIC_NUMBER, <<"0", "3">>, record)))
           /\ twin_decoder = Some(NewDecoder(Encode(MAGIC_NUMBER, <<"0", "4">>, record)))
    /\ heartbeat = None

HasReturned(d) == d.step = "returned"

Advance(d) == IF HasReturned(d) THEN d ELSE Step(d)

DecodeBothVersions ==
    /\ ~HasReturned(Unwrap(decoder)) \/ ~HasReturned(Unwrap(twin_decoder))
    /\ decoder' = Some(Advance(Unwrap(decoder)))
    /\ twin_decoder' = Some(Advance(Unwrap(twin_decoder)))
    /\ UNCHANGED <<reassembler_vars, build_vars, twin_vars, site_vars, parse_vars,
                   heartbeat>>

NextVersions == DecodeBothVersions

SpecVersions == InitVersions /\ [][NextVersions]_vars

\* ------------------------------------------------------------ SpecParse
\* One call of Packet::new on the payload of an extended packet: the type
\* byte, up to MaxFields comma-separated sub-header fields, the terminator
\* and one byte of data.
FieldTexts == {<<>>, <<"7">>, <<"a">>, <<"N", "=", "A">>}

SubHeaderPayloads(n) ==
    {<<"1">> \o Join(fields, ",") \o <<SUB_HEADER_TERMINATOR, "a">> :
        fields \in SeqsUpTo(FieldTexts, n)}

InitParse ==
    /\ ReassemblerNew
    /\ BuildIdle
    /\ TwinNew
    /\ SiteIdle
    /\ DecodersIdle
    /\ payload \in SubHeaderPayloads(MaxFields)
    /\ parsed = None

ParsePacket ==
    /\ parsed = None
    /\ parsed' = Some(PacketNew(payload))
    /\ UNCHANGED <<payload, reassembler_vars, build_vars, twin_vars, site_vars,
                   heartbeat_vars>>

NextParse == ParsePacket

SpecParse == InitParse /\ [][NextParse]_vars

\* ------------------------------------------------------------ SpecPayload
\* One payload of any type byte is passed to Packet::new and the packet it
\* returns to a new Reassembler, as Packet::from_message and Reassembler::add
\* are called one after the other for an SBD message.
Fillers(n) == [k \in 1..n |-> LOOK_TO_NEXT_BYTE_FOR_MEANING]

TypeBytes ==
    {"0", "1", "2", "3", "4", "5", "6", "7", "8", "9", "/", ";", "}", "!",
     "xFF", ":", ","}

\* What follows the type byte: data, a station name in the simple form
\* (whole, without terminator, empty, not UTF-8), texts that are close to
\* it, and sub-headers of fragments.
Bodies ==
    {<<>>, <<"a">>, <<"a", ":", "b">>, <<":", "a">>, <<"~", "a">>,
     <<",", "N", "=", "A", ":", "a">>,
     <<",", "N", "=", "A", ":">>,
     <<",", "N", "=", "A">>,
     <<",", "N", "=", ":", "a">>,
     <<",", "N", "=", "A", ":", "a", ":", "b">>,
     <<",", "N", "=", "xFF", ":", "a">>,
     <<",", "N", "=", "A", ":", "xFF">>,
     <<",", "a", ":", "b">>,
     <<"N", "=", "A", ":", "a">>,
     <<",", "N", "A", ":", "a">>,
     <<",", "7", ",", "0", ":", "a">>,
     <<",", "7", ",", "0", ",", "1", ":", "a">>}

AnyPayloads(n) ==
    {Fillers(k) : k \in 0..n}
        \cup {Fillers(k) \o <<t>> \o body :
                 k \in 0..n, t \in TypeBytes, body \in Bodies}

InitPayload ==
    /\ ReassemblerNew
    /\ BuildIdle
    /\ TwinNew
    /\ SiteIdle
    /\ DecodersIdle
    /\ payload \in AnyPayloads(MaxFiller)
    /\ parsed = None

\* reassembler.add(packet) with the packet that Packet::new returned
AddParsed ==
    /\ IsSome(parsed) /\ Unwrap(parsed).ok
    /\ log = <<>>
    /\ Add(Unwrap(parsed).value)
    /\ UNCHANGED <<parse_vars, build_vars, twin_vars, site_vars, heartbeat_vars>>

NextPayload == ParsePacket \/ AddParsed

SpecPayload == InitPayload /\ [][NextPayload]_vars

\* ------------------------------------------------------------ reading the log
HasSubHeader(p) == IsSome(p.sub_header)
IdOf(p) == Unwrap(p.sub_header).id
IsStartFragment(p) == HasSubHeader(p) /\ IsSome(Unwrap(p.sub_header).total_bytes)
IsContinuation(p) == HasSubHeader(p) /\ IsNone(Unwrap(p.sub_header).total_bytes)
TotalOf(p) == Unwrap(Unwrap(p.sub_header).total_bytes)
DataLen(ps) == Len(ConcatData(ps))

Calls == 1..Len(log)
\* The call that led to the current state. Every call of a behaviour is the
\* last call of one of its states, so a property of the last call that holds
\* in every reachable state holds of every call.
LastCall == {Len(log)} \ {0}
PacketAt(k) == log[k].packet
MapBefore(k) == IF k = 1 THEN <<>> ELSE log[k - 1].packet_map
BinBefore(k) == IF k = 1 THEN <<>> ELSE log[k - 1].recycle_bin
MapAfter(k) == log[k].packet_map
BinAfter(k) == log[k].recycle_bin

IsPrefix(s, t) == Len(s) <= Len(t) /\ SubSeq(t, 1, Len(s)) = s

\* The packets with id i passed by the calls s..k, in call order.
Run(i, s, k) ==
    SelectSeq([j \in 1..(k - s + 1) |-> PacketAt(s + j - 1)],
              LAMBDA p : HasSubHeader(p) /\ IdOf(p) = i)

StartsOf(i, k) == {s \in 1..k : IsStartFragment(PacketAt(s)) /\ IdOf(PacketAt(s)) = i}
LastStart(i, k) == CHOOSE s \in StartsOf(i, k) : \A t \in StartsOf(i, k) : t <= s

\* Call s passed a start fragment for id i, and no call in s+1..k passed another,
\* and the data of id i accumulated over s..j differs from the declared total
\* for every j < k: at call k the message begun at s is still open.
OpenRun(i, s, k) ==
    /\ s \in StartsOf(i, k)
    /\ s = LastStart(i, k)
    /\ \A j \in s..(k - 1) : DataLen(Run(i, s, j)) # TotalOf(PacketAt(s))

\* ------------------------------------------------------------ claims
RetAt(k) == log[k].ret

\* C1: from a state where id i has nothing in flight, a start fragment
\* declaring total_bytes = T followed by continuation fragments for i (no
\* other start for i between) gets None from every add while the accumulated
\* data length differs from T, and a Message at the first add where it equals
\* T; the Message's data is the fragments' data in arrival order.
C1_StartThenContinuations ==
    \A k \in LastCall : \A s \in 1..k :
        LET p == PacketAt(k)
        IN  (/\ HasSubHeader(p)
             /\ OpenRun(IdOf(p), s, k)
             /\ Entry(MapBefore(s), IdOf(p)) = <<>>)
            => LET run == Run(IdOf(p), s, k)
                   T == TotalOf(PacketAt(s))
               IN  /\ DataLen(run) # T => RetAt(k) = None
                   /\ DataLen(run) = T =>
                        /\ IsSome(RetAt(k))
                        /\ Unwrap(RetAt(k)).data = ConcatData(run)

\* A message of two fragments, "a" then "b", completed from a clean state.
C1_Witness ==
    \E k \in Calls : \E s \in 1..(k - 1) :
        LET p == PacketAt(k)
        IN  /\ HasSubHeader(p)
            /\ OpenRun(IdOf(p), s, k)
            /\ Entry(MapBefore(s), IdOf(p)) = <<>>
            /\ RetAt(s) = None
            /\ IsSome(RetAt(k))
            /\ Unwrap(RetAt(k)).data = <<"a", "b">>

\* C2: adds for different ids do not interfere: an add changes only the
\* in-flight list of the added packet's id, a message completes exactly when
\* the fragments of its own id reach its own total_bytes, and a returned
\* Message holds only packets and data of its own id.
C2_IdsDoNotInterfere ==
    \A k \in LastCall :
        LET p == PacketAt(k)
        IN  HasSubHeader(p) =>
            LET i == IdOf(p)
                keys == DOMAIN MapBefore(k) \cup DOMAIN MapAfter(k) \cup Ids
            IN  /\ \A j \in keys \ {i} :
                     /\ (j \in DOMAIN MapAfter(k)) = (j \in DOMAIN MapBefore(k))
                     /\ Entry(MapAfter(k), j) = Entry(MapBefore(k), j)
                /\ \A s \in 1..k :
                     OpenRun(i, s, k) =>
                        (IsSome(RetAt(k)) <=>
                            DataLen(Run(i, s, k)) = TotalOf(PacketAt(s)))
                /\ IsSome(RetAt(k)) =>
                     LET m == Unwrap(RetAt(k))
                     IN  /\ \A n \in 1..Len(m.packets) :
                              HasSubHeader(m.packets[n]) /\ IdOf(m.packets[n]) = i
                         /\ m.data = ConcatData(m.packets)

\* Two messages with distinct ids, each of two fragments, interleaved, both
\* completed.
C2_Witness ==
    \E s1, s2, k1, k2 \in Calls :
        /\ s1 < s2 /\ s2 < k1 /\ k1 < k2
        /\ HasSubHeader(PacketAt(k1)) /\ HasSubHeader(PacketAt(k2))
        /\ IdOf(PacketAt(k1)) # IdOf(PacketAt(k2))
        /\ OpenRun(IdOf(PacketAt(k1)), s1, k1)
        /\ OpenRun(IdOf(PacketAt(k2)), s2, k2)
        /\ IsSome(RetAt(k1)) /\ IsSome(RetAt(k2))
        /\ Unwrap(RetAt(k1)).data = <<"a", "b">>
        /\ Unwrap(RetAt(k2)).data = <<"b", "a">>

\* C3: a start fragment added for an id that has fragments in flight appends
\* all of them, in accumulation order, to the recycle bin before it is stored
\* itself; a Message completed later for that id is built from the new start
\* fragment and the fragments added after it only.
C3_StartEvictsToRecycleBin ==
    \A k \in LastCall :
        LET p == PacketAt(k)
        IN  HasSubHeader(p) =>
            LET i == IdOf(p)
                inflight == Entry(MapBefore(k), i)
            IN  /\ (IsStartFragment(p) /\ inflight # <<>>) =>
                     /\ BinAfter(k) = BinBefore(k) \o inflight
                     /\ Entry(MapAfter(k), i) =
                            IF IsSome(RetAt(k)) THEN <<>> ELSE <<p>>
                /\ IsSome(RetAt(k)) =>
                     /\ StartsOf(i, k) # {}
                     /\ Unwrap(RetAt(k)).packets = Run(i, LastStart(i, k), k)

\* Start "a", then start "b" for the same id, then a continuation "a": the
\* message is "ba" and the first start fragment is in the recycle bin.
C3_Witness ==
    \E k \in Calls : \E s \in 2..(k - 1) :
        LET p == PacketAt(k)
        IN  /\ IsContinuation(p)
            /\ s \in StartsOf(IdOf(p), k)
            /\ s = LastStart(IdOf(p), k)
            /\ Entry(MapBefore(s), IdOf(p)) # <<>>
            /\ IsSome(RetAt(k))
            /\ Unwrap(RetAt(k)).data = <<"b", "a">>
            /\ Len(BinAfter(k)) = 1
            /\ IsStartFragment(BinAfter(k)[1])
            /\ BinAfter(k)[1].data = <<"a">>

\* C4: in any state, adding a packet without sub-header returns a Message
\* whose data is the packet's data, and leaves the fragment map and the
\* recycle bin as they were.
C4_PlainPacketIsAMessage ==
    \A k \in LastCall :
        LET p == PacketAt(k)
        IN  ~HasSubHeader(p) =>
            /\ IsSome(RetAt(k))
            /\ Unwrap(RetAt(k)).data = p.data
            /\ MapAfter(k) = MapBefore(k)
            /\ BinAfter(k) = BinBefore(k)

\* A packet without sub-header added while fragments are in flight and the
\* recycle bin is not empty.
C4_Witness ==
    \E k \in Calls :
        /\ ~HasSubHeader(PacketAt(k))
        /\ PacketAt(k).data # <<>>
        /\ \E j \in DOMAIN MapBefore(k) : MapBefore(k)[j] # <<>>
        /\ BinBefore(k) # <<>>
        /\ IsSome(RetAt(k))

\* C7: an in-flight fragment set loses fragments only to a start fragment of
\* its own id (or by completing): a continuation fragment that returns None,
\* a packet of another id and a packet without sub-header remove nothing.
C7_OnlyAStartEmpties ==
    \A k \in LastCall : \A j \in DOMAIN MapBefore(k) :
        LET p == PacketAt(k)
            removesNothing == IsPrefix(MapBefore(k)[j], Entry(MapAfter(k), j))
        IN  /\ ~HasSubHeader(p) => removesNothing
            /\ (HasSubHeader(p) /\ IdOf(p) # j) => removesNothing
            /\ (IsContinuation(p) /\ RetAt(k) = None) => removesNothing
            /\ ~removesNothing =>
                 /\ HasSubHeader(p) /\ IdOf(p) = j
                 /\ IsStartFragment(p) \/ IsSome(RetAt(k))

\* A fragment in flight survives a packet of another id, a packet without
\* sub-header and a continuation fragment of its own id that returns None.
C7_Witness ==
    \E j \in Ids : \E k1, k2, k3 \in Calls :
        /\ \A k \in {k1, k2, k3} :
             /\ Entry(MapBefore(k), j) # <<>>
             /\ IsPrefix(Entry(MapBefore(k), j), Entry(MapAfter(k), j))
        /\ ~HasSubHeader(PacketAt(k1))
        /\ HasSubHeader(PacketAt(k2)) /\ IdOf(PacketAt(k2)) # j
        /\ IsContinuation(PacketAt(k3)) /\ IdOf(PacketAt(k3)) = j
        /\ RetAt(k3) = None

\* The fragment list begins with a start fragment and holds more data than
\* that fragment's total_bytes.
OverLong(list) ==
    /\ list # <<>>
    /\ IsStartFragment(list[1])
    /\ DataLen(list) > TotalOf(list[1])

\* C9: once the data accumulated for an id exceeds the total_bytes of its
\* start fragment, every further continuation fragment for the id returns
\* None; a new start fragment for the id evicts the over-long set to the
\* recycle bin, and the new message is then reassembled to completion as usual.
C9_OverLongSet ==
    \A k \in LastCall :
        LET p == PacketAt(k)
        IN  HasSubHeader(p) =>
            LET i == IdOf(p)
                inflight == Entry(MapBefore(k), i)
            IN  /\ \A s \in 1..(k - 1) :
                     (OpenRun(i, s, k) /\
                      DataLen(Run(i, s, k - 1)) > TotalOf(PacketAt(s)))
                     => /\ inflight = Run(i, s, k - 1)
                        /\ OverLong(inflight)
                        /\ RetAt(k) = None
                /\ (OverLong(inflight) /\ IsContinuation(p)) =>
                     /\ RetAt(k) = None
                     /\ Entry(MapAfter(k), i) = Append(inflight, p)
                /\ (OverLong(inflight) /\ IsStartFragment(p)) =>
                     BinAfter(k) = BinBefore(k) \o inflight
                /\ \A s \in 1..k :
                     (OpenRun(i, s, k) /\ OverLong(Entry(MapBefore(s), i)))
                     => /\ IsSome(RetAt(k)) <=>
                             DataLen(Run(i, s, k)) = TotalOf(PacketAt(s))
                        /\ IsSome(RetAt(k)) =>
                             Unwrap(RetAt(k)).data = ConcatData(Run(i, s, k))

\* An over-long set got None for a further continuation fragment, was evicted
\* by a new start fragment, and the new message completed with a continuation.
C9_Witness ==
    \E c, s, k \in Calls :
        /\ c < s /\ s < k
        /\ IsContinuation(PacketAt(c))
        /\ OverLong(Entry(MapBefore(c), IdOf(PacketAt(c))))
        /\ RetAt(c) = None
        /\ IsStartFragment(PacketAt(s))
        /\ IdOf(PacketAt(s)) = IdOf(PacketAt(c))
        /\ OverLong(Entry(MapBefore(s), IdOf(PacketAt(s))))
        /\ Len(BinAfter(s)) >= 2
        /\ IsContinuation(PacketAt(k))
        /\ OpenRun(IdOf(PacketAt(s)), s, k)
        /\ IsSome(RetAt(k))
        /\ Len(Unwrap(RetAt(k)).packets) = 2

\* C5: Message construction from a list whose first packet declares
\* total_bytes = T succeeds if and only if the summed data length of all the
\* list's packets equals T, and fails otherwise with DataLengthMismatch
\* carrying T and the actual length; so every Message the Reassembler returns
\* for a packet with sub-header has data as long as its first packet's
\* total_bytes.
C5_LengthDecidesConstruction ==
    /\ (IsSome(built) /\ packets # <<>> /\ IsStartFragment(packets[1])) =>
         LET r == Unwrap(built)
             T == TotalOf(packets[1])
         IN  /\ r.ok <=> DataLen(packets) = T
             /\ r.ok => r.value.data = ConcatData(packets)
             /\ ~r.ok => r = DataLengthMismatch(T, DataLen(packets))
    /\ \A k \in LastCall :
         (HasSubHeader(PacketAt(k)) /\ IsSome(RetAt(k))) =>
            LET m == Unwrap(RetAt(k))
            IN  /\ m.packets # <<>>
                /\ IsStartFragment(m.packets[1])
                /\ Len(m.data) = TotalOf(m.packets[1])

\* Message::new accepted a list of three packets that begins with a start
\* fragment, and the Reassembler, passed the same packets, returned a Message
\* at the third.
C5_Witness ==
    /\ Len(packets) = 3
    /\ IsStartFragment(packets[1])
    /\ IsSome(built)
    /\ Unwrap(built).ok
    /\ Len(Unwrap(built).value.data) = 2
    /\ Len(log) = 3
    /\ IsSome(ret)
    /\ Unwrap(ret) = Unwrap(built).value

\* Message::new refused a list that begins with a start fragment: the data
\* is longer than total_bytes.
C5_WitnessMismatch ==
    /\ Len(packets) = 2
    /\ IsStartFragment(packets[1])
    /\ IsSome(built)
    /\ Unwrap(built) = DataLengthMismatch(1, 2)

\* C6: Message construction fails with NoTotalBytes whenever the first packet
\* has a sub-header without total_bytes, whatever the later packets are; so
\* an in-flight list that begins with a continuation fragment yields no
\* Message, however many continuation fragments are added to it.
C6_ContinuationCannotAnchor ==
    /\ (IsSome(built) /\ packets # <<>> /\ IsContinuation(packets[1])) =>
         Unwrap(built) = NoTotalBytes(packets[1])
    /\ \A k \in LastCall :
         LET p == PacketAt(k)
         IN  IsContinuation(p) =>
             LET inflight == Entry(MapBefore(k), IdOf(p))
             IN  (inflight = <<>> \/ IsContinuation(inflight[1])) =>
                    /\ RetAt(k) = None
                    /\ Entry(MapAfter(k), IdOf(p)) = Append(inflight, p)

\* Three continuation fragments of one id, enough data for any total_bytes
\* of the model: Message::new fails with NoTotalBytes and the Reassembler
\* holds all three in flight.
C6_Witness ==
    /\ Len(packets) = 3
    /\ \A n \in 1..3 : IsContinuation(packets[n]) /\ IdOf(packets[n]) = IdOf(packets[1])
    /\ DataLen(packets) = 3
    /\ IsSome(built)
    /\ Unwrap(built).error = "NoTotalBytes"
    /\ Len(log) = 3
    /\ ret = None
    /\ Entry(packet_map, IdOf(packets[1])) = packets

\* C8: start_byte never influences reassembly: two sequences of adds that
\* differ only in the start_byte values of their packets return None and
\* Message at the same steps, with the same Message data, and the data is
\* the fragments' data in arrival order, whatever their offsets.
C8_StartByteIsIgnored ==
    /\ IsSome(ret) <=> IsSome(twin.ret)
    /\ IsSome(ret) => Unwrap(ret).data = Unwrap(twin.ret).data
    /\ \A k \in LastCall :
         LET p == PacketAt(k)
         IN  (HasSubHeader(p) /\ IsSome(RetAt(k))) =>
             /\ StartsOf(IdOf(p), k) # {}
             /\ Unwrap(RetAt(k)).data =
                    ConcatData(Run(IdOf(p), LastStart(IdOf(p), k), k))
             /\ Unwrap(twin.ret).data =
                    ConcatData(Run(IdOf(p), LastStart(IdOf(p), k), k))

\* A message "ab" completed in both Reassemblers from a start fragment "a"
\* and a continuation "b"; in the second Reassembler the start fragment
\* carries the larger start_byte, so offset order would give "ba".
C8_Witness ==
    \E k \in Calls \ {1} :
        LET p == PacketAt(k)
            q == PacketAt(k - 1)
        IN  /\ IsContinuation(p) /\ IsStartFragment(q) /\ IdOf(p) = IdOf(q)
            /\ Unwrap(twin.passed[k - 1].sub_header).start_byte >
                   Unwrap(twin.passed[k].sub_header).start_byte
            /\ k = Len(log)
            /\ IsSome(ret) /\ IsSome(twin.ret)
            /\ Unwrap(ret).data = <<"a", "b">>
            /\ Unwrap(twin.ret).data = <<"a", "b">>

\* The sequence t is s with its elements in some other order.
IsPermutation(s, t) ==
    /\ Len(s) = Len(t)
    /\ \A n \in 1..Len(s) :
         Cardinality({m \in 1..Len(s) : s[m] = s[n]}) =
             Cardinality({m \in 1..Len(t) : t[m] = s[n]})

\* The Messages the adds recorded in log returned, in call order.
Returned ==
    LET some == SelectSeq(log, LAMBDA call : IsSome(call.ret))
    IN  [n \in 1..Len(some) |-> Unwrap(some[n].ret)]

\* C10: in the bulk reassembly of a site's SBD messages, the messages are
\* passed to one Reassembler in non-decreasing order of their time of
\* session, whatever order the storage returned them in, and the list of
\* messages returned is ordered by message datetime.
C10_BulkReassemblyOrder ==
    /\ \A k \in Calls :
         /\ IsSome(PacketAt(k).message)
         /\ k > 1 => Unwrap(datetime(PacketAt(k - 1))) <= Unwrap(datetime(PacketAt(k)))
    /\ pc # "sort" =>
         /\ IsPermutation(from_storage, sbd_messages)
         /\ \A k \in Calls : Unwrap(PacketAt(k).message) = sbd_messages[k]
    /\ (IsSome(site_result) /\ Unwrap(site_result).ok) =>
         LET out == Unwrap(site_result).value
         IN  /\ Len(log) = Len(from_storage)
             /\ IsPermutation(Returned, out)
             /\ \A n \in 1..(Len(out) - 1) :
                  DatetimeKey(out[n].datetime) <= DatetimeKey(out[n + 1].datetime)

\* The storage returned three SBD messages latest first; reassemble returned
\* two messages, and the one that was completed last of the two is first in
\* the list, since it began first.
C10_Witness ==
    /\ Len(from_storage) = 3
    /\ \A n \in 1..2 :
         from_storage[n].time_of_session > from_storage[n + 1].time_of_session
    /\ IsSome(site_result)
    /\ Unwrap(site_result).ok
    /\ Len(Unwrap(site_result).value) = 2
    /\ Returned # Unwrap(site_result).value
    /\ Unwrap(site_result).value[1].data = <<"a", "b">>
    /\ Unwrap(site_result).value[1].datetime = Some(1)

\* ------------------------------------------------------------ claims on Heartbeat::new
\* The call of SpecDecode, its slice, and what it returned.
D == Unwrap(decoder)
HasDecoded == IsSome(decoder) /\ HasReturned(D)
Result == Unwrap(D.result)
BeginsWithMagic(bytes) == StartsWith(bytes, MAGIC_NUMBER)
ReadsOf(d) == [n \in 1..Len(d.trail) |-> d.trail[n].read]

\* C11, as the claim states it: a slice of any length that does not begin
\* with the magic number is refused with Error::MagicNumber, which carries
\* the leading bytes of the slice, and nothing after them is read.
C11_AnyLengthInvalidMagic ==
    HasDecoded /\ ~BeginsWithMagic(D.bytes) =>
        /\ ~Result.ok
        /\ Result.error = "MagicNumber"
        /\ Result.magic_number = CutShort(D.bytes, 4)
        /\ ReadsOf(D) = <<"magic_number">>

\* C11, amended: a slice of at least four bytes that does not begin with the
\* magic number is refused with Error::MagicNumber carrying its first four
\* bytes unchanged, and no later field is read; a slice of fewer than four
\* bytes is refused with the end-of-input error of read_exact.
C11_InvalidMagic ==
    HasDecoded /\ ~BeginsWithMagic(D.bytes) =>
        /\ ReadsOf(D) = <<"magic_number">>
        /\ D.cursor <= 4
        /\ IF Len(D.bytes) >= 4
           THEN Result = MagicNumber(SubSeq(D.bytes, 1, 4))
           ELSE Result = UnexpectedEof

\* A message of a whole record that does not begin with the magic number
\* has been refused.
C11_Witness ==
    /\ HasDecoded
    /\ Len(D.bytes) > MaxShort
    /\ ~BeginsWithMagic(D.bytes)
    /\ SubSeq(D.bytes, 1, 3) = SubSeq(MAGIC_NUMBER, 1, 3)
    /\ Result = MagicNumber(SubSeq(D.bytes, 1, 4))

\* The version field of a slice, when it is two ASCII digits: the number
\* they denote.
HasVersionDigits(bytes) ==
    Len(bytes) >= 6 /\ bytes[5] \in DigitBytes /\ bytes[6] \in DigitBytes
VersionDigits(bytes) == DigitsValue(SubSeq(bytes, 5, 6))
UnsupportedVersion(bytes) ==
    /\ BeginsWithMagic(bytes)
    /\ HasVersionDigits(bytes)
    /\ VersionDigits(bytes) \notin {3, 4}

\* C12, as the claim states it: any slice that begins with the magic number
\* and whose version field denotes a number other than 3 and 4 is refused
\* with Error::Version carrying that number, and no body is decoded.
C12_AnyUnsupportedVersion ==
    HasDecoded /\ UnsupportedVersion(D.bytes) =>
        /\ Result = Version(VersionDigits(D.bytes))
        /\ \A n \in 1..Len(D.trail) :
               D.trail[n].read \in {"magic_number", "version", "length"}

\* C12, amended: a slice that holds the whole header (magic number, version
\* and the three bytes of the length) and whose version field denotes a
\* number other than 3 and 4 is refused with Error::Version carrying that
\* number, and no body is decoded; a slice that ends before the length is
\* complete is refused with the end-of-input error of read_exact.
C12_UnsupportedVersion ==
    HasDecoded /\ UnsupportedVersion(D.bytes) =>
        /\ \A n \in 1..Len(D.trail) :
               D.trail[n].read \in {"magic_number", "version", "length"}
        /\ IsNone(D.batteries)
        /\ IF Len(D.bytes) >= 9
           THEN Result = Version(VersionDigits(D.bytes))
           ELSE Result = UnexpectedEof

\* A message of a whole record sent as version 05 has been refused.
C12_Witness ==
    /\ HasDecoded
    /\ Len(D.bytes) > MaxShort
    /\ UnsupportedVersion(D.bytes)
    /\ Result = Version(5)

\* The status bytes of the slots of a bank that starts at pos, each followed
\* by a body of width bytes when it is GOOD and by nothing when it is in
\* absent: the index in bytes of the first status byte that is none of
\* COULD_NOT_OPEN, GOOD and BAD, or 0 when the bank has none.
RECURSIVE FirstUnexpected(_, _, _, _, _)
FirstUnexpected(bytes, pos, slots, width, absent) ==
    IF slots = 0 \/ pos >= Len(bytes) THEN 0
    ELSE IF bytes[pos + 1] = GOOD
         THEN FirstUnexpected(bytes, pos + 1 + width, slots - 1, width, absent)
    ELSE IF bytes[pos + 1] \in absent
         THEN FirstUnexpected(bytes, pos + 1, slots - 1, width, absent)
    ELSE IF bytes[pos + 1] \in {COULD_NOT_OPEN, GOOD, BAD} THEN 0
    ELSE pos + 1

\* The banks of a call: the battery bank, which is one byte when that byte
\* is COULD_NOT_OPEN and four slots of 18-byte bodies otherwise, and the
\* efoy bank, two slots of 23-byte (version 03) or 24-byte (version 04) bodies.
UnexpectedIn(d, entry) ==
    IF entry.read = "batteries"
    THEN IF entry.from < Len(d.bytes) /\ d.bytes[entry.from + 1] = COULD_NOT_OPEN
         THEN 0
         ELSE FirstUnexpected(d.bytes, entry.from, 4, 18, {BAD})
    ELSE IF entry.read = "efoys"
    THEN FirstUnexpected(d.bytes, entry.from, 2,
                         IF Unwrap(d.version) = 3 THEN 23 ELSE 24,
                         {COULD_NOT_OPEN, BAD})
    ELSE 0

\* C13, as the claim states it: wherever a bank has a status byte that is
\* none of the three status constants, the read of the bank fails and the
\* call returns Error::UnexpectedByte with that byte, and no body is read
\* after it.
C13_UnexpectedStatusByte ==
    HasDecoded =>
        \A n \in 1..Len(D.trail) :
            UnexpectedIn(D, D.trail[n]) # 0 =>
                /\ ~D.trail[n].ok
                /\ Result = UnexpectedByte(ByteCode[D.bytes[UnexpectedIn(D, D.trail[n])]])

\* What holds of the battery bank alone: a status byte there that is none
\* of the three constants is refused with Error::UnexpectedByte.
C13_BatteriesUnexpectedStatusByte ==
    HasDecoded =>
        \A n \in 1..Len(D.trail) :
            D.trail[n].read = "batteries" /\ UnexpectedIn(D, D.trail[n]) # 0 =>
                /\ ~D.trail[n].ok
                /\ Result = UnexpectedByte(ByteCode[D.bytes[UnexpectedIn(D, D.trail[n])]])

\* The positions of the status bytes of slots consecutive slots from pos on,
\* each slot taking its status byte and, when that byte is GOOD, the 18
\* bytes of a K2 after it; the last element is the position after the slots.
RECURSIVE SlotStarts(_, _, _)
SlotStarts(bytes, pos, slots) ==
    IF slots = 0 THEN <<pos>>
    ELSE <<pos>> \o SlotStarts(bytes,
                               IF pos < Len(bytes) /\ bytes[pos + 1] = GOOD
                               THEN pos + 19 ELSE pos + 1,
                               slots - 1)

\* The status byte of slot i of the bank at from, "" past the end of the slice.
StatusOf(bytes, from, i) ==
    IF SlotStarts(bytes, from, 4)[i] < Len(bytes)
    THEN bytes[SlotStarts(bytes, from, 4)[i] + 1] ELSE ""

\* The slots before slot i are all GOOD or BAD.
RespondedOrNotBefore(bytes, from, i) ==
    \A j \in 1..(i - 1) : StatusOf(bytes, from, j) \in {GOOD, BAD}

\* The read of the battery bank, as the trail of the call records it.
BatteriesEntry == D.trail[4]
HasReadBatteries ==
    HasDecoded /\ Len(D.trail) >= 4 /\ BatteriesEntry.from < Len(D.bytes)

\* C14: the battery bank is one byte and absent when its first byte is
\* COULD_NOT_OPEN; otherwise four slots are read in order, a slot being its
\* status byte and, iff the byte is GOOD, an 18-byte K2, so that a bank with
\* k GOOD slots takes 4 + 18 * k bytes; four BAD bytes give a present bank
\* of four absent slots; COULD_NOT_OPEN at a slot after the first is
\* refused with Error::UnexpectedByte.
C14_BatteryBank ==
    HasReadBatteries =>
        LET bytes == D.bytes
            from == BatteriesEntry.from
            starts == SlotStarts(bytes, from, 4)
            good == {i \in 1..4 : StatusOf(bytes, from, i) = GOOD}
        IN  /\ BatteriesEntry.read = "batteries"
            /\ bytes[from + 1] = COULD_NOT_OPEN =>
                   /\ BatteriesEntry.ok
                   /\ BatteriesEntry.to = from + 1
                   /\ D.batteries = Some(None)
            /\ RespondedOrNotBefore(bytes, from, 5) /\ starts[5] <= Len(bytes) =>
                   /\ BatteriesEntry.ok
                   /\ BatteriesEntry.to = from + 4 + 18 * Cardinality(good)
                   /\ BatteriesEntry.to = starts[5]
                   /\ IsSome(D.batteries) /\ IsSome(Unwrap(D.batteries))
                   /\ Len(Unwrap(Unwrap(D.batteries))) = 4
                   /\ \A i \in 1..4 :
                          Unwrap(Unwrap(D.batteries))[i] =
                              IF i \in good
                              THEN Some(K2ReadFrom(bytes, starts[i] + 1).value)
                              ELSE None
            /\ \A i \in 2..4 :
                   /\ RespondedOrNotBefore(bytes, from, i)
                   /\ StatusOf(bytes, from, i) = COULD_NOT_OPEN
                   => /\ ~BatteriesEntry.ok
                      /\ IsNone(D.batteries)
                      /\ Result = UnexpectedByte(ByteCode[COULD_NOT_OPEN])

\* A bank of a responding slot, two that did not respond and a responding
\* one has been read: 4 + 18 * 2 bytes.
C14_Witness ==
    /\ HasReadBatteries
    /\ BatteriesEntry.ok
    /\ StatusOf(D.bytes, BatteriesEntry.from, 1) = GOOD
    /\ StatusOf(D.bytes, BatteriesEntry.from, 2) = BAD
    /\ StatusOf(D.bytes, BatteriesEntry.from, 4) = GOOD
    /\ BatteriesEntry.to = BatteriesEntry.from + 40

\* A bank whose second slot is COULD_NOT_OPEN has been refused.
C14_WitnessCouldNotOpenLater ==
    /\ HasReadBatteries
    /\ StatusOf(D.bytes, BatteriesEntry.from, 1) = GOOD
    /\ StatusOf(D.bytes, BatteriesEntry.from, 2) = COULD_NOT_OPEN
    /\ Result = UnexpectedByte(120)

\* Four slots that did not respond have been read as a present bank.
C14_WitnessNoneResponded ==
    /\ HasReadBatteries
    /\ D.batteries = Some(Some(<<None, None, None, None>>))

\* The scanner-log grammar, said of a whole text: it is UTF-8 without a line
\* feed, begins with power_on= and holds ,start_scan= then ,stop_scan= then
\* ,skip_scan= one after the other.
MatchesScannerLog(bytes) ==
    /\ IsUtf8(bytes)
    /\ StartsWith(bytes, ScannerPrefix)
    /\ \A n \in 1..Len(bytes) : bytes[n] # "x0A"
    /\ \E i \in (Len(ScannerPrefix) + 1)..Len(bytes) :
           /\ OccursAt(bytes, ScannerSeparators[1], i)
           /\ \E j \in (i + Len(ScannerSeparators[1]))..Len(bytes) :
                  /\ OccursAt(bytes, ScannerSeparators[2], j)
                  /\ \E k \in (j + Len(ScannerSeparators[2]))..Len(bytes) :
                         OccursAt(bytes, ScannerSeparators[3], k)

\* The reads after the sensors, as the trail of the call records them: the
\* sensors are its sixth read, the first attempt at the scanner log its
\* seventh, the wind its eighth and the second attempt its ninth.
SensorsEntry == D.trail[6]
FirstAttempt == D.trail[7]
WindEntry == D.trail[8]
Retry == D.trail[9]
HasTriedScanner == HasDecoded /\ Len(D.trail) >= 7

\* C15: after the sensors the rest of the slice is first read as the
\* scanner log, and the call returns without wind when that succeeds; only
\* when it fails is the cursor set back to where the attempt started, eight
\* bytes of wind read from there, and what follows them read as the scanner
\* log. A call that returns a heartbeat has wind iff the bytes after the
\* sensors do not match the scanner-log grammar.
C15_WindFallback ==
    HasTriedScanner =>
        /\ SensorsEntry.read = "sensors" /\ SensorsEntry.ok
        /\ FirstAttempt.read = "scanner"
        /\ FirstAttempt.from = SensorsEntry.to
        /\ D.position = Some(FirstAttempt.from)
        /\ FirstAttempt.ok <=> MatchesScannerLog(Drop(D.bytes, FirstAttempt.from))
        /\ FirstAttempt.ok =>
               /\ Len(D.trail) = 7
               /\ Result.ok /\ IsNone(Result.value.wind) /\ IsNone(D.wind)
        /\ ~FirstAttempt.ok =>
               /\ Len(D.trail) >= 8
               /\ WindEntry.read = "wind"
               /\ WindEntry.from = FirstAttempt.from
               /\ WindEntry.ok <=> Len(D.bytes) >= WindEntry.from + 8
               /\ WindEntry.ok =>
                      /\ WindEntry.to = WindEntry.from + 8
                      /\ Len(D.trail) = 9
                      /\ Retry.read = "scanner"
                      /\ Retry.from = WindEntry.to
                      /\ Retry.ok <=> MatchesScannerLog(Drop(D.bytes, Retry.from))
                      /\ Result.ok <=> Retry.ok
               /\ ~WindEntry.ok => Len(D.trail) = 8 /\ ~Result.ok
        /\ Result.ok =>
               /\ IsSome(Result.value.wind)
                      <=> ~MatchesScannerLog(Drop(D.bytes, SensorsEntry.to))
               /\ IsSome(Result.value.wind) =>
                      Result.value.wind =
                          Some(WindReadFrom(D.bytes, SensorsEntry.to).value)

\* A heartbeat with wind has been returned: the first attempt failed, the
\* wind was read from where that attempt had started, the second succeeded.
C15_Witness ==
    /\ HasTriedScanner
    /\ Len(D.trail) = 9
    /\ ~FirstAttempt.ok
    /\ WindEntry.from = FirstAttempt.from
    /\ Result.ok
    /\ IsSome(Result.value.wind)

\* A heartbeat without wind has been returned at the first attempt.
C15_WitnessNoWind ==
    /\ HasTriedScanner
    /\ FirstAttempt.ok
    /\ Result.ok
    /\ IsNone(Result.value.wind)

\* The bytes after the sensors, and whether they match the scanner-log
\* grammar neither as they are nor after eight bytes of wind.
AfterSensors == Drop(D.bytes, SensorsEntry.to)
MatchesNeither ==
    /\ ~MatchesScannerLog(AfterSensors)
    /\ ~(Len(AfterSensors) >= 8 /\ MatchesScannerLog(Drop(AfterSensors, 8)))

\* C16, as the claim states it: whenever the bytes after the sensors match
\* the scanner-log grammar neither directly nor after a wind block, however
\* many bytes there are, the call fails with Error::RegexMismatch and
\* returns no heartbeat.
C16_AlwaysRegexMismatch ==
    HasTriedScanner /\ MatchesNeither =>
        /\ ~Result.ok
        /\ Result.error = "RegexMismatch"

\* C16, amended: whenever the bytes after the sensors match the scanner-log
\* grammar neither directly nor after a wind block, the call returns no
\* heartbeat; it fails with Error::RegexMismatch, carrying the text after
\* the wind block, when at least eight bytes follow the sensors and those
\* after the eighth are UTF-8, with the end-of-input error of the wind read
\* when fewer than eight bytes follow the sensors, and with the
\* invalid-data error of read_to_string when the bytes after the eighth are
\* not UTF-8.
C16_GrammarMismatch ==
    HasTriedScanner /\ MatchesNeither =>
        /\ ~Result.ok
        /\ IF Len(AfterSensors) < 8 THEN Result = UnexpectedEof
           ELSE IF ~IsUtf8(Drop(AfterSensors, 8)) THEN Result = InvalidData
           ELSE Result = RegexMismatch(Drop(AfterSensors, 8))

\* A message whose text after the wind block is cut off after start_scan
\* has been refused with Error::RegexMismatch.
C16_Witness ==
    /\ HasTriedScanner
    /\ MatchesNeither
    /\ Len(AfterSensors) > 8
    /\ StartsWith(Drop(AfterSensors, 8), ScannerPrefix)
    /\ Result = RegexMismatch(Drop(AfterSensors, 8))

\* A message of three bytes after the sensors has been refused with the
\* end-of-input error.
C16_WitnessShort ==
    /\ HasTriedScanner
    /\ MatchesNeither
    /\ Len(AfterSensors) = 3
    /\ Result = UnexpectedEof

\* ------------------------------------------------------------ claims on the two versions
\* The call of SpecVersions on the version 04 message; D is the call on the
\* version 03 message of the same record.
D04 == Unwrap(twin_decoder)
BothReturned ==
    /\ IsSome(decoder) /\ IsSome(twin_decoder)
    /\ HasReturned(D) /\ HasReturned(D04)
Consumed(entry) == entry.to - entry.from

\* The slots of an efoy bank that starts at from, with bodies of width
\* bytes: whether each is present, from its status byte.
EfoyPresent(bytes, from, width) ==
    LET first == bytes[from + 1] \notin {COULD_NOT_OPEN, BAD}
        second == bytes[from + 2 + (IF first THEN width ELSE 0)]
                      \notin {COULD_NOT_OPEN, BAD}
    IN  <<first, second>>
Count(present) == Cardinality({i \in 1..Len(present) : present[i]})

\* The two calls, at every step of theirs: the reads so far are the same
\* reads in the same order with the same outcome, over the same number of
\* bytes but for the efoys.
BothDecoding == IsSome(decoder) /\ IsSome(twin_decoder)
C17_SameReads ==
    /\ ReadsOf(D) = ReadsOf(D04)
    /\ \A n \in 1..Len(D.trail) :
           LET v03 == D.trail[n]
               v04 == D04.trail[n]
               present == EfoyPresent(D.bytes, v03.from, 23)
           IN  /\ v03.ok = v04.ok
               /\ v03.read # "efoys" => Consumed(v03) = Consumed(v04)
               /\ v03.read = "wind" => v03.from = D.trail[n - 1].from
                                       /\ v04.from = D04.trail[n - 1].from
               /\ v03.read = "efoys" =>
                      /\ v03.from = v04.from
                      /\ present = EfoyPresent(D04.bytes, v04.from, 24)
                      /\ Consumed(v03) = 2 + 23 * Count(present)
                      /\ Consumed(v04) = 2 + 24 * Count(present)
                      /\ \A i \in 1..2 :
                             /\ IsSome(Unwrap(D.efoys)[i]) = present[i]
                             /\ IsSome(Unwrap(D04.efoys)[i]) = present[i]
                             /\ present[i] =>
                                    Unwrap(Unwrap(D04.efoys)[i]).efoy
                                        = Unwrap(Unwrap(D.efoys)[i])

\* The two calls, once they have returned: the same error, or heartbeats
\* that differ in their efoys only.
C17_SameResult ==
    /\ D.batteries = D04.batteries
    /\ D.sensors = D04.sensors
    /\ D.wind = D04.wind
    /\ Unwrap(D.result).ok = Unwrap(D04.result).ok
    /\ ~Unwrap(D.result).ok => D.result = D04.result
    /\ Unwrap(D.result).ok =>
           LET a == Unwrap(D.result).value
               b == Unwrap(D04.result).value
           IN  /\ a.variant = "Version03" /\ b.variant = "Version04"
               /\ a.batteries = b.batteries
               /\ a.sensors = b.sensors
               /\ a.wind = b.wind
               /\ a.scanner = b.scanner
               /\ a.efoys = Unwrap(D.efoys) /\ b.efoys = Unwrap(D04.efoys)

\* C17: the same record sent as version 03 and as version 04 is decoded by
\* the same reads in the same order, each with the same outcome and, but for
\* the efoys, over the same number of bytes; the efoys take a status byte
\* for each of the two slots and, for each present slot, 23 bytes in
\* version 03 and 24 in version 04, which are the 23 of version 03 followed
\* by the active cartridge port; batteries, sensors, wind and scanner, or
\* the error, are the same in both.
C17_VersionsDifferInEfoys ==
    /\ BothDecoding => C17_SameReads
    /\ BothReturned => C17_SameResult

\* A record with one present and one absent efoy, and wind, has been
\* decoded in both versions: 25 bytes of efoys in one, 26 in the other.
C17_Witness ==
    /\ BothReturned
    /\ Unwrap(D.result).ok /\ Unwrap(D04.result).ok
    /\ IsSome(D.wind)
    /\ Consumed(D.trail[5]) = 25
    /\ Consumed(D04.trail[5]) = 26

\* ------------------------------------------------------------ claims on Packet::new
\* The call of SpecParse: what it returned, and the comma-separated fields
\* of the sub-header it was given, the first of which is the text before
\* the first comma.
HasParsed == IsSome(parsed)
Parsed == Unwrap(parsed)
SubHeaderFields == Split(TakeWhileNot(Tail(payload), SUB_HEADER_TERMINATOR), ",")
NoLeadingCharacters == SubHeaderFields[1] = <<>>
HasField(n) == Len(SubHeaderFields) >= n
IsNumber(text) == text # <<>> /\ \A n \in 1..Len(text) : text[n] \in DigitBytes
HasId == HasField(2) /\ IsNumber(SubHeaderFields[2])
HasStartByte == HasField(3) /\ IsNumber(SubHeaderFields[3])

\* C18, as the claim states it: an extended packet whose id is absent or is
\* not a number is refused with MissingId, and one whose start_byte is
\* absent or is not a number with MissingStartByte.
C18_MissingOrNotNumeric ==
    HasParsed /\ NoLeadingCharacters =>
        /\ ~HasId => Parsed = MissingId
        /\ HasId /\ ~HasStartByte => Parsed = MissingStartByte

\* C18, amended: an extended packet whose id field is absent is refused with
\* MissingId, and one whose start_byte field is absent with
\* MissingStartByte; an id or start_byte field that is present but is not a
\* valid number is refused with the integer parse error; in none of these
\* cases is a Packet returned.
C18_MissingOrParseError ==
    HasParsed /\ NoLeadingCharacters =>
        /\ ~HasField(2) => Parsed = MissingId
        /\ HasField(2) /\ ~HasId => Parsed = ParseIntError
        /\ HasId /\ ~HasField(3) => Parsed = MissingStartByte
        /\ HasId /\ HasField(3) /\ ~HasStartByte => Parsed = ParseIntError
        /\ ~HasId \/ ~HasStartByte => ~Parsed.ok

\* A sub-header with an id and a start_byte that is not a number has been
\* refused with the integer parse error.
C18_Witness ==
    /\ HasParsed
    /\ NoLeadingCharacters
    /\ HasId
    /\ HasField(3) /\ SubHeaderFields[3] = <<"a">>
    /\ Parsed = ParseIntError

\* A sub-header without an id field has been refused with MissingId.
C18_WitnessMissingId ==
    /\ HasParsed
    /\ NoLeadingCharacters
    /\ ~HasField(2)
    /\ Parsed = MissingId

\* A sub-header whose id, start_byte and fourth field are as they should
\* be: the fourth is total_bytes, a number, or a station-name marker.
IsMarker(text) == StartsWith(text, <<"N", "=">>)
HasFourth ==
    /\ NoLeadingCharacters /\ HasId /\ HasStartByte
    /\ HasField(4)
    /\ IsNumber(SubHeaderFields[4]) \/ IsMarker(SubHeaderFields[4])

\* C19, as the claim states it, of a sub-header of exactly five fields: the
\* packet is accepted only when the fourth field is total_bytes and the
\* fifth a station-name marker; a fifth field that is no marker, and a
\* fifth field after a fourth that is a marker itself, are refused with
\* InvalidStationNameField.
C19_FifthField ==
    HasParsed /\ HasFourth /\ Len(SubHeaderFields) = 5 =>
        /\ Parsed.ok =>
               IsNumber(SubHeaderFields[4]) /\ IsMarker(SubHeaderFields[5])
        /\ ~IsMarker(SubHeaderFields[5]) =>
               Parsed = InvalidStationNameField(SubHeaderFields[5])
        /\ IsMarker(SubHeaderFields[4]) =>
               Parsed = InvalidStationNameField(SubHeaderFields[5])

\* What holds of the fifth field: it is refused with
\* InvalidStationNameField iff it is no marker, whatever the fourth was.
C19_FifthFieldMustBeMarker ==
    HasParsed /\ HasFourth /\ Len(SubHeaderFields) = 5 =>
        IF IsMarker(SubHeaderFields[5])
        THEN Parsed.ok /\ Parsed.value.station_name = Some(Drop(SubHeaderFields[5], 2))
        ELSE Parsed = InvalidStationNameField(SubHeaderFields[5])

\* C20, as the claim states it: a sub-header that has anything after its
\* fifth field, one or more further fields, empty or not, is refused with
\* TrailingSubHeaderCharacters, and a packet is accepted only if its
\* sub-header has at most five fields.
C20_AnyRemainder ==
    HasParsed /\ HasFourth /\ HasField(5) /\ IsMarker(SubHeaderFields[5]) =>
        /\ Parsed.ok => Len(SubHeaderFields) <= 5
        /\ HasField(6) =>
               /\ ~Parsed.ok
               /\ Parsed.error = "TrailingSubHeaderCharacters"

\* What holds of the remainder: the packet is refused with
\* TrailingSubHeaderCharacters iff the fields after the fifth, joined by
\* commas, are not the empty text, which a single empty sixth field is.
C20_NonEmptyRemainder ==
    HasParsed /\ HasFourth /\ HasField(5) /\ IsMarker(SubHeaderFields[5]) =>
        IF Join(Drop(SubHeaderFields, 5), ",") # <<>>
        THEN Parsed = TrailingSubHeaderCharacters(
                          <<",">> \o Join(Drop(SubHeaderFields, 5), ","))
        ELSE Parsed.ok

\* ------------------------------------------------------------ claims on payloads
\* The payload of SpecPayload, read byte by byte: the filler bytes it begins
\* with, the type byte after them, and what follows the type byte.
FillerCount ==
    CHOOSE k \in 0..Len(payload) :
        /\ \A n \in 1..k : payload[n] = LOOK_TO_NEXT_BYTE_FOR_MEANING
        /\ k = Len(payload) \/ payload[k + 1] # LOOK_TO_NEXT_BYTE_FOR_MEANING
HasTypeByte == FillerCount < Len(payload)
TypeByte == payload[FillerCount + 1]
AfterType == Drop(payload, FillerCount + 1)
OddDigits == {"1", "3", "5", "7", "9"}
IsPlain == HasTypeByte /\ TypeByte \notin OddDigits

\* The place of the first terminator in bytes, Len(bytes) + 1 when there is none.
FirstTerminator(bytes) ==
    CHOOSE n \in 1..(Len(bytes) + 1) :
        /\ \A m \in 1..(n - 1) : bytes[m] # SUB_HEADER_TERMINATOR
        /\ n = Len(bytes) + 1 \/ bytes[n] = SUB_HEADER_TERMINATOR

\* bytes begin with ,N=<name> where <name>, the text up to the terminator
\* (or to the end when there is none), is UTF-8.
HasNamePrefix(bytes) ==
    /\ StartsWith(bytes, <<",", "N", "=">>)
    /\ IsUtf8(SubSeq(bytes, 1, FirstTerminator(bytes) - 1))
NameOf(bytes) == SubSeq(bytes, 4, FirstTerminator(bytes) - 1)
AfterTerminator(bytes) == Drop(bytes, FirstTerminator(bytes))

\* C21: for a packet that is not extended, when the bytes after the type
\* byte do not begin with ,N=<name> the packet's data is all of them and it
\* has no station name; when they do, the station name is <name> and the
\* data is the bytes after the terminator.
C21_OptionalStationName ==
    HasParsed /\ IsPlain =>
        /\ Parsed.ok
        /\ IsNone(Parsed.value.sub_header)
        /\ IF HasNamePrefix(AfterType)
           THEN /\ Parsed.value.station_name = Some(NameOf(AfterType))
                /\ Parsed.value.data = AfterTerminator(AfterType)
           ELSE /\ Parsed.value.station_name = None
                /\ Parsed.value.data = AfterType

\* A payload whose sub-header begins with a comma but is no station name
\* has been parsed: nothing of it was consumed.
C21_Witness ==
    /\ HasParsed /\ IsPlain
    /\ AfterType = <<",", "a", ":", "b">>
    /\ Parsed.ok
    /\ Parsed.value.data = <<",", "a", ":", "b">>
    /\ IsNone(Parsed.value.station_name)

\* A payload with a station name has been parsed.
C21_WitnessName ==
    /\ HasParsed /\ IsPlain
    /\ HasNamePrefix(AfterType)
    /\ Parsed.ok
    /\ Parsed.value.station_name = Some(<<"A">>)
    /\ Parsed.value.data = <<"a", ":", "b">>

\* The payload from its type byte on.
FromTypeByte == Drop(payload, FillerCount)

\* C22, as the claim states it: for any packet that is not extended, the
\* type byte followed by the packet's data is the payload (from the type
\* byte on): no byte of it is lost.
C22_TypeByteAndData ==
    HasParsed /\ IsPlain =>
        /\ Parsed.ok
        /\ <<TypeByte>> \o Parsed.value.data = FromTypeByte

\* C22, amended: for any packet that is not extended and has no station
\* name, the type byte followed by the packet's data is the payload from the
\* type byte on; when a station name is recognised, data leaves out the
\* ,N=<name> prefix and its terminator, and the payload is the type byte,
\* the text ,N=, the station name, the terminator when the payload has one,
\* and the data.
C22_TypeByteNameAndData ==
    HasParsed /\ IsPlain =>
        /\ Parsed.ok
        /\ IF IsNone(Parsed.value.station_name)
           THEN <<TypeByte>> \o Parsed.value.data = FromTypeByte
           ELSE <<TypeByte>> \o <<",", "N", "=">>
                    \o Unwrap(Parsed.value.station_name)
                    \o (IF \E n \in 1..Len(AfterType) :
                               AfterType[n] = SUB_HEADER_TERMINATOR
                        THEN <<SUB_HEADER_TERMINATOR>> ELSE <<>>)
                    \o Parsed.value.data
                    = FromTypeByte

\* A payload with filler bytes and a station name has been parsed: its data
\* is shorter than what follows the type byte.
C22_Witness ==
    /\ HasParsed /\ IsPlain
    /\ FillerCount > 0
    /\ Parsed.ok
    /\ IsSome(Parsed.value.station_name)
    /\ Parsed.value.data # <<>>
    /\ Len(Parsed.value.data) < Len(AfterType)

\* A payload without station name has been parsed: type byte and data are
\* the payload.
C22_WitnessNoName ==
    /\ HasParsed /\ IsPlain
    /\ Parsed.ok
    /\ IsNone(Parsed.value.station_name)
    /\ Len(Parsed.value.data) > 1
    /\ <<TypeByte>> \o Parsed.value.data = payload

\* C23: Packet::new skips every filler byte the payload begins with and
\* takes the byte after them as the type byte; it fails with
\* MissingPacketTypeByte exactly when the payload is empty or filler bytes
\* only; the bytes skipped are not in the packet's data, which is the end
\* of what follows the type byte.
C23_FillerBytes ==
    HasParsed =>
        /\ Parsed = MissingPacketTypeByte <=> ~HasTypeByte
        /\ ~Parsed.ok /\ HasTypeByte => Parsed.error # "MissingPacketTypeByte"
        /\ Parsed.ok =>
               /\ TypeByte # LOOK_TO_NEXT_BYTE_FOR_MEANING
               /\ Parsed.value.type_ = TypeFrom(TypeByte)
               /\ \E n \in 0..Len(AfterType) :
                      Parsed.value.data = Drop(AfterType, n)

\* A payload of two filler bytes, a type byte and data has been parsed.
C23_Witness ==
    /\ HasParsed
    /\ FillerCount = 2
    /\ HasTypeByte /\ TypeByte = "0"
    /\ Parsed.ok
    /\ Parsed.value.type_ = SelfTimed
    /\ Parsed.value.data = <<"a">>

\* A payload of filler bytes only has been refused.
C23_WitnessOnlyFiller ==
    /\ HasParsed
    /\ FillerCount = 2
    /\ ~HasTypeByte
    /\ Parsed = MissingPacketTypeByte

\* The errors Packet::new returns for the sub-header of an extended packet.
SubHeaderErrors ==
    {"FromUtf8Error", "LeadingSubHeaderCharacters", "MissingId",
     "MissingStartByte", "ParseIntError", "InvalidStationNameField",
     "TrailingSubHeaderCharacters"}

\* C24: a packet is taken as extended exactly when its type byte is one of
\* 1, 3, 5, 7, 9: with such a type byte Packet::new returns a packet with a
\* sub-header or an error of the sub-header, and with any other it returns
\* a packet without sub-header, for which Reassembler::add returns at once
\* a Message of that one packet, leaving the Reassembler as it was.
C24_ExtendedTypeBytes ==
    HasParsed /\ HasTypeByte =>
        /\ Parsed.ok => (IsSome(Parsed.value.sub_header) <=> TypeByte \in OddDigits)
        /\ TypeByte \notin OddDigits => Parsed.ok
        /\ TypeByte \in OddDigits /\ ~Parsed.ok => Parsed.error \in SubHeaderErrors
        /\ log # <<>> /\ TypeByte \notin OddDigits =>
               /\ ret = Some(Message(Parsed.value.data, None, <<Parsed.value>>))
               /\ packet_map = <<>>
               /\ recycle_bin = <<>>
        /\ log # <<>> /\ TypeByte \in OddDigits =>
               /\ DOMAIN packet_map = {Unwrap(Parsed.value.sub_header).id}
               /\ IsSome(ret) => Unwrap(ret).packets = <<Parsed.value>>
               /\ IsNone(ret) =>
                      packet_map[Unwrap(Parsed.value.sub_header).id] = <<Parsed.value>>

\* A packet of type byte '}' (odd, no digit), with bytes that would be a
\* sub-header, has been parsed and added: it came back as a Message.
C24_Witness ==
    /\ HasParsed /\ HasTypeByte
    /\ TypeByte = "}"
    /\ AfterType = <<",", "7", ",", "0", ":", "a">>
    /\ log # <<>>
    /\ IsSome(ret)
    /\ Unwrap(ret).data = AfterType

\* A packet of type byte '9' has been parsed and added: it is in flight.
C24_WitnessExtended ==
    /\ HasParsed /\ HasTypeByte
    /\ TypeByte = "9"
    /\ log # <<>>
    /\ IsNone(ret)
    /\ packet_map = (7 :> <<Parsed.value>>)

\* ------------------------------------------------------------ claims on normalization
HasNormalized == IsSome(heartbeat)
Normalized == Unwrap(heartbeat)
BankFrom == BatteriesEntry.from
NoBank == D.bytes[BankFrom + 1] = COULD_NOT_OPEN

\* The slots of the bank whose status byte was GOOD, in slot order.
RespondedSlots ==
    IF NoBank THEN <<>>
    ELSE SelectSeq(<<1, 2, 3, 4>>, LAMBDA i : StatusOf(D.bytes, BankFrom, i) = GOOD)

\* The K2 that was decoded for slot i of the bank.
UnitOf(i) == Unwrap(Unwrap(Result.value.batteries)[i])

\* C25: normalization reduces the battery bank to the list of its present
\* units in slot order: no bank gives the empty list, a slot that did not
\* respond gives no entry, and the length of the list is the number of slots
\* whose status byte was GOOD. Stated of the list that Heartbeat::new builds.
C25_PresentUnitsOnly ==
    HasNormalized =>
        /\ NoBank => Normalized.batteries = <<>>
        /\ Len(Normalized.batteries) = Len(RespondedSlots)
        /\ \A n \in 1..Len(Normalized.batteries) :
               /\ IsSome(Normalized.batteries[n])
               /\ n <= Len(RespondedSlots) =>
                      Normalized.batteries[n] = Some(BatteryNew(UnitOf(RespondedSlots[n])))

\* The same of the list that the conversion From<Batteries> builds: it holds.
C25_IntoPresentUnitsOnly ==
    HasNormalized =>
        /\ NoBank => Normalized.into.batteries = <<>>
        /\ Len(Normalized.into.batteries) = Len(RespondedSlots)
        /\ \A n \in 1..Len(Normalized.into.batteries) :
               Normalized.into.batteries[n] = BatteryFromK2(UnitOf(RespondedSlots[n]))

\* A bank of which the first and the last slot responded has been normalized.
C25_Witness ==
    /\ HasNormalized
    /\ ~NoBank
    /\ RespondedSlots = <<1, 4>>
    /\ Normalized.into.batteries[1].voltage # Normalized.into.batteries[2].voltage

\* No bank has been normalized.
C25_WitnessNoBank == HasNormalized /\ NoBank

\* ------------------------------------------------------------ claims on the reassembler's state
RECURSIVE Flat(_)
Flat(lists) == IF lists = <<>> THEN <<>> ELSE Head(lists) \o Flat(Tail(lists))

RECURSIVE ListsOf(_)
ListsOf(map) ==
    IF DOMAIN map = {} THEN <<>>
    ELSE LET i == CHOOSE j \in DOMAIN map : TRUE
         IN  <<map[i]>> \o ListsOf([j \in (DOMAIN map) \ {i} |-> map[j]])

Occurrences(p, list) == Cardinality({n \in 1..Len(list) : list[n] = p})
Range(list) == {list[n] : n \in 1..Len(list)}

\* The packets passed to add so far, those in flight, and those of the
\* messages that add has returned, each as one list.
Added == [k \in Calls |-> PacketAt(k)]
InFlight == Flat(ListsOf(packet_map))
ReturnedPackets == Flat([n \in 1..Len(Returned) |-> Returned[n].packets])
WithSubHeader(list) == {p \in Range(list) : HasSubHeader(p)}

\* C26: every packet with a sub-header that was passed to add is in exactly
\* one place: the in-flight list of its id, the recycle bin, or the packets
\* of one returned Message. A packet passed n times is held n times over the
\* three places, and nothing is held that was not passed.
C26_PacketConservation ==
    /\ \A p \in WithSubHeader(Added \o InFlight \o recycle_bin \o ReturnedPackets) :
           Occurrences(p, Added)
               = Occurrences(p, InFlight) + Occurrences(p, recycle_bin)
                     + Occurrences(p, ReturnedPackets)
    /\ \A p \in WithSubHeader(InFlight) :
           Occurrences(p, InFlight) = Occurrences(p, Entry(packet_map, IdOf(p)))
    /\ \A n \in 1..Len(Returned) : \A p \in WithSubHeader(Returned[n].packets) :
           Occurrences(p, Added) = 1 =>
               \A m \in 1..Len(Returned) : m # n => p \notin Range(Returned[m].packets)

\* Packets are held in all three places, and a packet that was passed twice
\* is in the recycle bin and in a returned message.
C26_Witness ==
    /\ InFlight # <<>>
    /\ recycle_bin # <<>>
    /\ \E p \in WithSubHeader(ReturnedPackets) :
           /\ Occurrences(p, Added) = 2
           /\ Occurrences(p, recycle_bin) = 1
           /\ Occurrences(p, ReturnedPackets) = 1

\* The list in flight under id i begins with a start fragment.
BeginsWithStart(i) ==
    /\ Entry(packet_map, i) # <<>>
    /\ IsStartFragment(Entry(packet_map, i)[1])

\* C27: between adds no in-flight list is complete: the data of a list that
\* begins with a start fragment declaring total_bytes = T has a length other
\* than T, and Message::new refuses every list in flight.
C27_NoCompleteListInFlight ==
    \A i \in DOMAIN packet_map :
        /\ BeginsWithStart(i) =>
               DataLen(Entry(packet_map, i)) # TotalOf(Entry(packet_map, i)[1])
        /\ ~MessageNew(Entry(packet_map, i)).ok

\* Two lists are in flight that begin with a start fragment, one with less
\* data than declared and one with more.
C27_Witness ==
    \E i, j \in DOMAIN packet_map :
        /\ BeginsWithStart(i) /\ BeginsWithStart(j)
        /\ DataLen(Entry(packet_map, i)) < TotalOf(Entry(packet_map, i)[1])
        /\ DataLen(Entry(packet_map, j)) > TotalOf(Entry(packet_map, j)[1])

\* A message has been returned and the list of its id is empty.
C27_WitnessReturned ==
    \E k \in LastCall :
        /\ IsSome(RetAt(k))
        /\ HasSubHeader(PacketAt(k))
        /\ Len(Unwrap(RetAt(k)).packets) > 1
        /\ Entry(packet_map, IdOf(PacketAt(k))) = <<>>

\* C28: the list in flight under id i holds only packets whose sub-header
\* has id i; a start fragment is found only at the first position of a list
\* and every later position holds a continuation fragment.
C28_ListsByIdStartFirst ==
    \A i \in DOMAIN packet_map :
        \A n \in 1..Len(packet_map[i]) :
            /\ HasSubHeader(packet_map[i][n])
            /\ IdOf(packet_map[i][n]) = i
            /\ n > 1 => IsContinuation(packet_map[i][n])
            /\ IsStartFragment(packet_map[i][n]) => n = 1

\* Both ids have a list in flight, one of a start fragment and a continuation
\* and one that begins with a continuation, after a start fragment has
\* replaced the list of an id.
C28_Witness ==
    /\ recycle_bin # <<>>
    /\ \E i, j \in DOMAIN packet_map :
           /\ i # j
           /\ Len(packet_map[i]) >= 2 /\ IsStartFragment(packet_map[i][1])
           /\ Len(packet_map[j]) >= 1 /\ IsContinuation(packet_map[j][1])

\* What call k appended to the recycle bin.
Recycled(k) == SubSeq(BinAfter(k), Len(BinBefore(k)) + 1, Len(BinAfter(k)))

\* C29: the recycle bin is append-only. Across every add the bin before is a
\* prefix of the bin after; the bin grows only when the packet is a start
\* fragment for an id whose list in flight is not empty, and then by that
\* list; and the packets of a returned Message are not put in it: an add
\* that returns a Message recycles nothing of what it returns, and no packet
\* is in the bin and in returned messages more often than it was passed.
C29_RecycleBinAppendOnly ==
    /\ \A k \in LastCall :
           /\ IsPrefix(BinBefore(k), BinAfter(k))
           /\ BinAfter(k) # BinBefore(k) =>
                  /\ IsStartFragment(PacketAt(k))
                  /\ Entry(MapBefore(k), IdOf(PacketAt(k))) # <<>>
                  /\ Recycled(k) = Entry(MapBefore(k), IdOf(PacketAt(k)))
           /\ IsSome(RetAt(k)) /\ BinAfter(k) # BinBefore(k) =>
                  Unwrap(RetAt(k)).packets = <<PacketAt(k)>>
    /\ \A p \in WithSubHeader(recycle_bin) :
           Occurrences(p, recycle_bin) + Occurrences(p, ReturnedPackets)
               <= Occurrences(p, Added)

\* An add of a start fragment has returned a Message and moved the list that
\* was in flight to a recycle bin that was not empty.
C29_Witness ==
    \E k \in LastCall :
        /\ IsSome(RetAt(k))
        /\ BinBefore(k) # <<>>
        /\ BinAfter(k) # BinBefore(k)

\* An add of a start fragment for an id with nothing in flight has left the
\* recycle bin as it was, not empty.
C29_WitnessUnchanged ==
    \E k \in LastCall :
        /\ IsStartFragment(PacketAt(k))
        /\ BinBefore(k) # <<>>
        /\ BinAfter(k) = BinBefore(k)

\* Before call k the list of id i holds no start fragment: it is empty or
\* begins with a continuation.
NoStartInFlight(i, k) ==
    Entry(MapBefore(k), i) = <<>> \/ IsContinuation(Entry(MapBefore(k), i)[1])

\* C30: a continuation fragment for id i that is passed before the start
\* fragment of its message is not merged into the message. It is held in
\* flight in a list that does not complete; the start fragment for i moves
\* the list that was held to the recycle bin and begins a list of its own;
\* and a Message that is returned is made of the start fragment and of the
\* fragments passed after it only, so that the data declared must be
\* passed again after the start fragment.
C30_EarlyContinuationNotMerged ==
    \A k \in LastCall :
        LET p == PacketAt(k)
            i == IdOf(p)
            held == Entry(MapBefore(k), i)
        IN  /\ IsContinuation(p) /\ NoStartInFlight(i, k) =>
                /\ RetAt(k) = None
                /\ Entry(MapAfter(k), i) = Append(held, p)
                /\ BinAfter(k) = BinBefore(k)
            /\ IsStartFragment(p) /\ held # <<>> /\ NoStartInFlight(i, k) =>
                /\ BinAfter(k) = BinBefore(k) \o held
                /\ Entry(MapAfter(k), i) = IF IsSome(RetAt(k)) THEN <<>> ELSE <<p>>
                /\ IsSome(RetAt(k)) => Unwrap(RetAt(k)).packets = <<p>>
            /\ HasSubHeader(p) /\ IsSome(RetAt(k)) =>
                LET s == LastStart(i, k)
                IN  /\ StartsOf(i, k) # {}
                    /\ Unwrap(RetAt(k)).packets = Run(i, s, k)
                    /\ Unwrap(RetAt(k)).data = ConcatData(Run(i, s, k))
                    /\ DataLen(Run(i, s, k)) = TotalOf(PacketAt(s))

\* A continuation was passed before the start fragment of its id, the start
\* fragment moved it to the recycle bin, and the message has completed with
\* the same continuation passed again.
C30_Witness ==
    \E k \in LastCall :
        /\ k >= 3
        /\ IsContinuation(PacketAt(k))
        /\ PacketAt(k).data # <<>>
        /\ IsSome(RetAt(k))
        /\ \E s \in 2..(k - 1) :
               /\ s = LastStart(IdOf(PacketAt(k)), k)
               /\ PacketAt(s - 1) = PacketAt(k)
               /\ BinAfter(s) = BinBefore(s) \o <<PacketAt(k)>>
               /\ BinAfter(k) = BinAfter(s)
               /\ Unwrap(RetAt(k)).packets = <<PacketAt(s), PacketAt(k)>>

\* A start fragment has arrived after a continuation that was held, and the
\* message is not complete without more data.
C30_WitnessHeld ==
    \E k \in LastCall :
        /\ IsStartFragment(PacketAt(k))
        /\ Entry(MapBefore(k), IdOf(PacketAt(k))) # <<>>
        /\ NoStartInFlight(IdOf(PacketAt(k)), k)
        /\ DataLen(Entry(MapBefore(k), IdOf(PacketAt(k))) \o <<PacketAt(k)>>)
               = TotalOf(PacketAt(k))
        /\ RetAt(k) = None

====
